---------------------------- MODULE Spec2Model ----------------------------
(***************************************************************************)
(* A model of the backend query engine of tfctl: the revision address      *)
(* resolver (svutil), the disk cache (cacheutil) and the backends'         *)
(* StateVersions / document fetch paths (local, s3, remote).               *)
(*                                                                         *)
(* Strings are sequences of one-character strings, so that prefix tests,   *)
(* splitting, upper-casing, integer parsing and path joining are computed  *)
(* the way the Go code computes them.                                      *)
(***************************************************************************)
EXTENDS Integers, Sequences, FiniteSets, TLC

VARIABLES
    versions,   \* svutil: the []*tfe.StateVersion list handed to the resolver
    existing,   \* svutil: the file paths for which os.Stat succeeds
    call,       \* svutil: the last resolver call, [op, specs, k]
    out,        \* svutil: what that call returned
    fs,         \* the cache tree on disk: path below the base directory -> node
    now,        \* the wall clock, in ticks
    envCache,   \* the value of the TFCTL_CACHE environment variable
    ops,        \* how many cache operations have run
    cop,        \* cacheutil: the last Read or Purge and what it returned
    last        \* history: entry path -> the last Write that succeeded there

rvars == <<versions, existing, call, out>>
cvars == <<fs, now, envCache, ops, cop, last>>
vars == <<rvars, cvars>>

(***************************************************************************)
(* Bounds of the model.                                                    *)
(***************************************************************************)
\* Width in bits of the model's machine integer (Go's int is 64 bits wide;
\* the model keeps two's-complement wrap-around at a width small enough to enumerate).
IntBits == 4
\* Longest revision list handed to the resolver.
MaxVersions == 2
\* Largest Serial a record of the resolver's list carries.
MaxSerial == 1

MinInt == -(2 ^ (IntBits - 1))
MaxInt == (2 ^ (IntBits - 1)) - 1

\* Go's int arithmetic: the result wraps modulo 2^IntBits.
WrapInt(x) == ((x - MinInt) % (2 ^ IntBits)) + MinInt

(***************************************************************************)
(* Strings.                                                                *)
(***************************************************************************)
Digits == <<"0", "1", "2", "3", "4", "5", "6", "7", "8", "9">>

IsDigit(c) == \E i \in 1..10 : Digits[i] = c

DigitVal(c) == (CHOOSE i \in 1..10 : Digits[i] = c) - 1

\* strings.ToUpper, on the letters the model's strings use.
UpperCh(c) ==
    CASE c = "c" -> "C"
      [] c = "s" -> "S"
      [] c = "v" -> "V"
      [] c = "a" -> "A"
      [] c = "b" -> "B"
      [] OTHER -> c

ToUpper(s) == [i \in 1..Len(s) |-> UpperCh(s[i])]

HasPrefix(s, p) == Len(p) <= Len(s) /\ SubSeq(s, 1, Len(p)) = p

\* strings.Split(s, sep) for a one-character separator.
RECURSIVE Split(_, _)
Split(s, sep) ==
    IF \A i \in 1..Len(s) : s[i] # sep
    THEN <<s>>
    ELSE LET i == CHOOSE j \in 1..Len(s) :
                      s[j] = sep /\ \A m \in 1..(j - 1) : s[m] # sep
         IN <<SubSeq(s, 1, i - 1)>> \o Split(SubSeq(s, i + 1, Len(s)), sep)

\* strconv.Itoa for a natural number, then for any integer.
RECURSIVE NatStr(_)
NatStr(n) ==
    IF n < 10 THEN <<Digits[n + 1]>>
    ELSE NatStr(n \div 10) \o <<Digits[(n % 10) + 1]>>

Itoa(n) == IF n < 0 THEN <<"-">> \o NatStr(-n) ELSE NatStr(n)

RECURSIVE DigitsVal(_)
DigitsVal(s) ==
    IF s = <<>> THEN 0
    ELSE 10 * DigitsVal(SubSeq(s, 1, Len(s) - 1)) + DigitVal(s[Len(s)])

\* strconv.Atoi: an optional sign, then one or more decimal digits. A syntax
\* error yields 0, a value outside the int range yields the nearest bound and
\* a range error.
Atoi(s) ==
    LET signed == s # <<>> /\ s[1] \in {"-", "+"}
        body == IF signed THEN Tail(s) ELSE s
        syntaxOK == body # <<>> /\ \A i \in 1..Len(body) : IsDigit(body[i])
        mag == DigitsVal(body)
        val == IF signed /\ s[1] = "-" THEN -mag ELSE mag
    IN IF ~syntaxOK THEN [val |-> 0, err |-> "syntax"]
       ELSE IF val > MaxInt THEN [val |-> MaxInt, err |-> "range"]
       ELSE IF val < MinInt THEN [val |-> MinInt, err |-> "range"]
       ELSE [val |-> val, err |-> "nil"]

(***************************************************************************)
(* svutil: the revision address resolver.                                  *)
(***************************************************************************)
\* What a resolver function returns: a record, an error, or a run-time panic
\* (an index outside the slice).
Found(v) == [kind |-> "ok", sv |-> v]
Failed(msg) == [kind |-> "err", msg |-> msg]
Panic == [kind |-> "panic"]

CSVPrefix == <<"C", "S", "V", "~">>

\* The lower bound of the range check is missing.
resolveCSVSpec_NoLowerBound(spec, vs) ==
    LET parts == Split(spec, "~")
    IN IF Len(parts) # 2 THEN Failed("invalid CSV spec format")
       ELSE LET index == Atoi(parts[2])
            IN IF index.err # "nil" THEN Failed("invalid CSV index")
               ELSE IF index.val > Len(vs) - 1
                    THEN Failed("index out of range")
               ELSE IF index.val < 0 THEN Panic
               ELSE Found(vs[index.val + 1])

resolveCSVSpec(spec, vs) ==
    LET parts == Split(spec, "~")
    IN IF Len(parts) # 2 THEN Failed("invalid CSV spec format")
       ELSE LET index == Atoi(parts[2])
            IN IF index.err # "nil" THEN Failed("invalid CSV index")
               ELSE IF index.val < 0 \/ index.val > Len(vs) - 1
                    THEN Failed("index out of range")
               ELSE Found(vs[index.val + 1])

\* The index at which a range loop that returns on its first hit stops, given
\* the set of indices that hit.
FirstHit(hits) == CHOOSE m \in hits : \A n \in hits : m <= n

resolveNumericSpec(spec, vs) ==
    LET i == Atoi(spec).val
    IN IF i <= 0
       THEN LET index == WrapInt(-i)
            IN IF index > Len(vs) - 1 THEN Failed("index out of range")
               ELSE IF index < 0 THEN Panic
               ELSE Found(vs[index + 1])
       ELSE LET hits == {j \in 1..Len(vs) : vs[j].Serial = i}
            IN IF hits # {} THEN Found(vs[FirstHit(hits)])
               ELSE Failed("failed to find state version with serial")

resolveFileSpec(spec) ==
    Found([ID |-> spec, Serial |-> 0, CreatedAt |-> 0])

\* The scan keeps going after a hit, so the last match wins.
resolveIDSpec_LastMatch(spec, vs) ==
    LET hits == {j \in 1..Len(vs) : HasPrefix(vs[j].ID, spec)}
    IN IF hits # {} THEN Found(vs[CHOOSE m \in hits : \A n \in hits : n <= m])
       ELSE Failed("failed to find state version with ID prefix")

resolveIDSpec(spec, vs) ==
    LET hits == {j \in 1..Len(vs) : HasPrefix(vs[j].ID, spec)}
    IN IF hits # {} THEN Found(vs[FirstHit(hits)])
       ELSE Failed("failed to find state version with ID prefix")

isNumeric(s) == Atoi(s).err = "nil"

\* os.Stat(s) succeeds exactly for the paths in files.
isFilePath(s, files) == s \in files

\* The file test comes first.
resolveSpec_FileFirst(spec, vs, files) ==
    IF isFilePath(spec, files) THEN resolveFileSpec(spec)
    ELSE IF HasPrefix(ToUpper(spec), CSVPrefix) THEN resolveCSVSpec(spec, vs)
    ELSE IF isNumeric(spec) THEN resolveNumericSpec(spec, vs)
    ELSE resolveIDSpec(spec, vs)

resolveSpec(spec, vs, files) ==
    IF HasPrefix(ToUpper(spec), CSVPrefix) THEN resolveCSVSpec(spec, vs)
    ELSE IF isNumeric(spec) THEN resolveNumericSpec(spec, vs)
    ELSE IF isFilePath(spec, files) THEN resolveFileSpec(spec)
    ELSE resolveIDSpec(spec, vs)

\* The loop of Resolve over specs[i..]: the first failure (or panic) ends it
\* and discards what was collected.
RECURSIVE ResolveFrom(_, _, _, _, _)
ResolveFrom(specs, i, vs, files, acc) ==
    IF i > Len(specs) THEN [kind |-> "ok", svs |-> acc]
    ELSE LET r == resolveSpec(specs[i], vs, files)
         IN IF r.kind = "ok"
            THEN ResolveFrom(specs, i + 1, vs, files, Append(acc, r.sv))
            ELSE IF r.kind = "panic" THEN Panic
            ELSE [kind |-> "err", msg |-> r.msg, svs |-> <<>>]

Resolve(vs, specs, files) ==
    LET ss == IF Len(specs) = 0 THEN <<CSVPrefix \o <<"0">>>> ELSE specs
    IN ResolveFrom(ss, 1, vs, files, <<>>)


(***************************************************************************)
(* cacheutil: the disk cache.                                              *)
(*                                                                         *)
(* A path is the sequence of its components below the base directory       *)
(* (Dir()); <<>> is the base directory itself. fs maps every path that     *)
(* exists to a node.                                                       *)
(***************************************************************************)
\* Ticks in an hour (time.Hour is 3,600,000,000,000 ns; the model scales the
\* tick so that hours * Hour leaves the integer range as it does in Go).
Hour == 2

DirNode == [dir |-> TRUE, data |-> <<>>, mtime |-> 0]
FileNode(data, t) == [dir |-> FALSE, data |-> data, mtime |-> t]

Exists(f, p) == p \in DOMAIN f
IsFile(f, p) == Exists(f, p) /\ ~f[p].dir
IsDir(f, p) == Exists(f, p) /\ f[p].dir

Prefixes(p) == {SubSeq(p, 1, n) : n \in 0..Len(p)}

\* The components of a slash-separated string; empty components vanish, as
\* they do when filepath.Join cleans its result.
Components(s) == SelectSeq(Split(s, "/"), LAMBDA c : c # <<>>)

\* filepath.Join(base, elems...), as a path below base.
RECURSIVE JoinPath(_)
JoinPath(elems) ==
    IF elems = <<>> THEN <<>>
    ELSE Components(Head(elems)) \o JoinPath(Tail(elems))

\* encodeKey: the SHA-256 hex digest of the clear key. The model keeps what
\* the code relies on: one file name, free of separators, for each key and
\* different names for different keys.
HexCh(c) == IF c = "/" THEN "%" ELSE c
encodeKey(input) == <<"#">> \o [i \in 1..Len(input) |-> HexCh(input[i])]

\* Only "0" disables.
Enabled_OnlyZero == envCache # "0"

\* Enabled: unless TFCTL_CACHE is "0" or "false".
Enabled == envCache = "" \/ (envCache # "0" /\ envCache # "false")

\* The path EntryPath, Read and Write compute for an entry.
EntryPathOf(subdirs, clearKey) == Append(JoinPath(subdirs), encodeKey(clearKey))

\* EntryPath: the path and whether something exists there (os.Stat).
EntryPath(f, subdirs, clearKey) ==
    [path |-> EntryPathOf(subdirs, clearKey),
     ok |-> Exists(f, EntryPathOf(subdirs, clearKey))]

WhiteSpace == {" ", "\n", "\t", "\r"}

\* bytes.TrimSpace.
RECURSIVE TrimLeft(_)
TrimLeft(b) ==
    IF b # <<>> /\ Head(b) \in WhiteSpace THEN TrimLeft(Tail(b)) ELSE b

RECURSIVE TrimRight(_)
TrimRight(b) ==
    IF b # <<>> /\ b[Len(b)] \in WhiteSpace
    THEN TrimRight(SubSeq(b, 1, Len(b) - 1))
    ELSE b

TrimSpace(b) == TrimRight(TrimLeft(b))

NotFound == [found |-> FALSE, data |-> <<>>, path |-> <<>>]

\* The bytes come back as they were written.
Read_NoTrim(f, subdirs, clearKey) ==
    LET e == EntryPath(f, subdirs, clearKey)
    IN IF ~Enabled THEN NotFound
       ELSE IF ~e.ok THEN NotFound
       ELSE IF f[e.path].dir THEN NotFound
       ELSE [found |-> TRUE, data |-> f[e.path].data, path |-> e.path]

\* Read: (*Entry, true) with the trimmed bytes, or (nil, false).
Read(f, subdirs, clearKey) ==
    LET e == EntryPath(f, subdirs, clearKey)
    IN IF ~Enabled THEN NotFound
       ELSE IF ~e.ok THEN NotFound
       ELSE IF f[e.path].dir THEN NotFound
       ELSE [found |-> TRUE, data |-> TrimSpace(f[e.path].data), path |-> e.path]

\* os.MkdirAll(dir): every missing directory on the way is created; a file
\* on the way makes it fail.
MkdirAllOK(f, dir) == \A q \in Prefixes(dir) : ~IsFile(f, q)

MkdirAll(f, dir) ==
    [q \in DOMAIN f \cup Prefixes(dir) |-> IF q \in DOMAIN f THEN f[q] ELSE DirNode]

PutFile(f, p, data, t) ==
    [q \in DOMAIN f \cup {p} |-> IF q = p THEN FileNode(data, t) ELSE f[q]]

\* What the operating system may do to a Write: carry it out, refuse to
\* create the directory, or stop after part of the bytes.
IOOutcomes == {"ok", "mkdir_fail", "short_write"}

\* Write(subdirs, clearKey, data) under outcome io, stopping after n bytes on
\* a short write: the tree afterwards and the error returned.
Write(f, subdirs, clearKey, data, io, n, t) ==
    LET dir == JoinPath(subdirs)
        p == Append(dir, encodeKey(clearKey))
    IN IF ~Enabled THEN [fs |-> f, err |-> "nil"]
       ELSE IF io = "mkdir_fail" \/ ~MkdirAllOK(f, dir)
            THEN [fs |-> f, err |-> "failed to create cache directory"]
       ELSE IF IsDir(f, p)
            THEN [fs |-> MkdirAll(f, dir), err |-> "failed to write to cache"]
       ELSE IF io = "short_write"
            THEN [fs |-> PutFile(MkdirAll(f, dir), p, SubSeq(data, 1, n), t),
                  err |-> "failed to write to cache"]
       ELSE [fs |-> PutFile(MkdirAll(f, dir), p, data, t), err |-> "nil"]

\* time.Since(mtime): a Duration, saturating at the ends of its range.
Since(t, mtime) ==
    IF t - mtime > MaxInt THEN MaxInt
    ELSE IF t - mtime < MinInt THEN MinInt
    ELSE t - mtime

\* The files filepath.Walk visits and the callback removes: every node that
\* is not a directory and is older than maxAge.
Expired(f, t, maxAge) == {p \in DOMAIN f : ~f[p].dir /\ Since(t, f[p].mtime) > maxAge}

\* Purge(hours), run without interference: the tree afterwards and the error.
Purge(f, hours, t) ==
    IF hours <= 0 THEN [fs |-> f, err |-> "nil"]
    ELSE LET maxAge == WrapInt(hours * Hour)
             gone == Expired(f, t, maxAge)
         IN [fs |-> [q \in DOMAIN f \ gone |-> f[q]], err |-> "nil"]

(***************************************************************************)
(* The backends' cache namespaces.                                         *)
(***************************************************************************)
\* s3.CacheReader / CacheWriter: the segments are Bucket, Prefix and Key.
S3Subdirs(t) == <<t.Bucket, t.Prefix, t.Key>>

\* remote.CacheReader / CacheWriter: the segments are host and organization
\* (after getOverrides).
RemoteSubdirs(t) == <<t.Hostname, t.Organization>>

SubdirsOf(t) == IF t.type = "s3" THEN S3Subdirs(t) ELSE RemoteSubdirs(t)

(***************************************************************************)
(* The cache's inputs.                                                     *)
(***************************************************************************)
\* Most cache operations in one behaviour.
MaxCacheOps == 2
\* Last tick of the clock.
MaxClock == 4

\* Object-store targets: one bucket, workspace_key_prefix and key with and
\* without a slash in them.
S3Target(pf, k) == [type |-> "s3", Bucket |-> <<"b">>, Prefix |-> pf, Key |-> k]

S3Targets ==
    {S3Target(<<"e">>, <<"k">>),
     S3Target(<<"e">>, <<"a", "/", "k">>),
     S3Target(<<"e", "/", "a">>, <<"k">>)}

RemoteTargets ==
    {[type |-> "remote", Hostname |-> <<"h">>, Organization |-> <<"o">>]}

Targets == S3Targets \cup RemoteTargets

\* Clear keys: a version id and a download URL.
ClearKeys == {<<"v">>, <<"u", "/", "v">>}

DataSet == {<<"x">>, <<" ", "x", " ", "y", "\n">>}

\* Where a short write stops: after half of the bytes.
ShortLen(data) == Len(data) \div 2

CacheEnvValues == {"", "0", "false", "1"}

NoCop == [op |-> "none"]

EmptyTree == [q \in {} |-> DirNode]

CacheIdle ==
    /\ fs = EmptyTree
    /\ now = 0
    /\ envCache = ""
    /\ ops = 0
    /\ cop = NoCop
    /\ last = <<>>

(***************************************************************************)
(* The resolver's inputs.                                                  *)
(***************************************************************************)
IDSet == {<<"a">>, <<"a", "b">>, <<"A", "b">>}

\* A list of n records, most recent first: CreatedAt falls with the index.
ListOf(ids, serials) ==
    [i \in 1..Len(ids) |->
        [ID |-> ids[i], Serial |-> serials[i], CreatedAt |-> Len(ids) - i + 1]]

VersionLists ==
    UNION {{ListOf(ids, serials) :
                ids \in [1..n -> IDSet], serials \in [1..n -> 0..MaxSerial]} :
           n \in 0..MaxVersions}

\* The integers written into offset and numeric specs: every list position and
\* a little beyond, and both ends of the machine range and one past each.
KRange ==
    ((-(MaxVersions + 1))..(MaxVersions + 2))
        \cup {MinInt - 1, MinInt, MinInt + 1, MaxInt - 1, MaxInt, MaxInt + 1}

CSVPrefixes == {<<"C", "S", "V", "~">>, <<"c", "s", "v", "~">>, <<"C", "s", "V", "~">>}

\* A numeral for k: as Itoa writes it, with an explicit plus sign, or with a
\* leading zero.
Numeral(k, form) ==
    CASE form = "plus" /\ k >= 0 -> <<"+">> \o Itoa(k)
      [] form = "zero" /\ k >= 0 -> <<"0">> \o Itoa(k)
      [] form = "zero" /\ k < 0 -> <<"-", "0">> \o NatStr(-k)
      [] OTHER -> Itoa(k)

IDSpecs ==
    UNION {[1..n -> {"a", "A", "b"}] : n \in 0..2}

SpecSample ==
    {CSVPrefix \o <<"0">>, <<"c", "s", "v", "~", "1">>, CSVPrefix \o <<"1", "~", "2">>,
     CSVPrefix \o <<"a">>, <<"0">>, <<"-", "1">>, <<"1">>, <<"2">>, Itoa(MinInt),
     Itoa(MaxInt + 1), <<>>, <<"a">>, <<"A">>, <<"b">>}

\* The specs Resolve is given sequences of: one of each form, a failing one and
\* the most negative integer.
ResolveSample ==
    {CSVPrefix \o <<"0">>, <<"c", "s", "v", "~", "1">>, <<"-", "1">>, <<"1">>,
     Itoa(MinInt), <<"a">>}

FileSets == {{}, {<<"a">>, <<"1">>, CSVPrefix \o <<"0">>}}

MaxSpecs == 2

InitResolve ==
    /\ versions \in VersionLists
    /\ existing \in FileSets
    /\ call = [op |-> "none", specs |-> <<>>, k |-> 0]
    /\ out = [kind |-> "none"]
    /\ CacheIdle

ResolveCSVCall ==
    /\ call.op = "none"
    /\ \E p \in CSVPrefixes, k \in KRange :
        /\ call' = [op |-> "csv", specs |-> <<p \o Itoa(k)>>, k |-> k]
        /\ out' = resolveCSVSpec(p \o Itoa(k), versions)
        /\ UNCHANGED <<versions, existing, cvars>>

ResolveNumericCall ==
    /\ call.op = "none"
    /\ \E k \in KRange, form \in {"plain", "plus", "zero"} :
        /\ call' = [op |-> "numeric", specs |-> <<Numeral(k, form)>>, k |-> k]
        /\ out' = resolveNumericSpec(Numeral(k, form), versions)
        /\ UNCHANGED <<versions, existing, cvars>>

ResolveIDCall ==
    /\ call.op = "none"
    /\ \E s \in IDSpecs :
        /\ call' = [op |-> "id", specs |-> <<s>>, k |-> 0]
        /\ out' = resolveIDSpec(s, versions)
        /\ UNCHANGED <<versions, existing, cvars>>

ResolveSpecCall ==
    /\ call.op = "none"
    /\ \E s \in SpecSample \cup IDSpecs :
        /\ call' = [op |-> "spec", specs |-> <<s>>, k |-> 0]
        /\ out' = resolveSpec(s, versions, existing)
        /\ UNCHANGED <<versions, existing, cvars>>

ResolveCall ==
    /\ call.op = "none"
    /\ \E n \in 0..MaxSpecs :
        \E ss \in [1..n -> ResolveSample] :
            /\ call' = [op |-> "resolve", specs |-> ss, k |-> 0]
            /\ out' = Resolve(versions, ss, existing)
            /\ UNCHANGED <<versions, existing, cvars>>

NextResolve ==
    \/ ResolveCSVCall
    \/ ResolveNumericCall
    \/ ResolveIDCall
    \/ ResolveSpecCall
    \/ ResolveCall

SpecResolve == InitResolve /\ [][NextResolve]_vars

(***************************************************************************)
(* Claims about the resolver.                                              *)
(***************************************************************************)
\* p is a prefix of s, character by character (case-sensitive).
IsPrefixOf(p, s) == Len(p) <= Len(s) /\ \A i \in 1..Len(p) : s[i] = p[i]

\* What "element k of the list, or an error" means for an offset k.
OffsetOutcome(o, k) ==
    IF 0 <= k /\ k <= Len(versions) - 1
    THEN o = Found(versions[k + 1])
    ELSE o.kind = "err"

\* C3: resolving the offset spec CSV~k (prefix in any letter case) returns
\* element k of the list when 0 <= k <= N-1 and an error for every other
\* integer k, the empty list included.
C3_OffsetIndex ==
    call.op = "csv" => OffsetOutcome(out, call.k)

C3_Witness ==
    /\ call.op = "csv"
    /\ call.specs[1][1] = "c"
    /\ call.k = 1
    /\ Len(versions) = 2
    /\ out = Found(versions[2])

\* C4: a numeric spec s the parser accepts resolves, for s <= 0, to what
\* offset -s resolves to (the same record or an out-of-range error) and, for
\* s > 0, to the first record in list order whose Serial is s, or an error
\* when there is none.
C4_NumericDuality ==
    (call.op = "numeric" /\ Atoi(call.specs[1]).err = "nil") =>
        IF call.k <= 0
        THEN OffsetOutcome(out, -call.k)
        ELSE IF \E j \in 1..Len(versions) : versions[j].Serial = call.k
             THEN /\ out.kind = "ok"
                  /\ \E j \in 1..Len(versions) :
                        /\ out.sv = versions[j]
                        /\ versions[j].Serial = call.k
                        /\ \A m \in 1..(j - 1) : versions[m].Serial # call.k
             ELSE out.kind = "err"

\* C5: identity-prefix resolution returns the first element, in list order,
\* whose ID has the spec as a case-sensitive prefix, an error when no element
\* has, and element 0 of a non-empty list for the empty spec.
C5_IDPrefixFirst ==
    call.op = "id" =>
        LET s == call.specs[1]
        IN /\ out.kind \in {"ok", "err"}
           /\ out.kind = "ok" =>
                \E j \in 1..Len(versions) :
                    /\ out.sv = versions[j]
                    /\ IsPrefixOf(s, versions[j].ID)
                    /\ \A m \in 1..(j - 1) : ~IsPrefixOf(s, versions[m].ID)
           /\ out.kind = "err" =>
                \A j \in 1..Len(versions) : ~IsPrefixOf(s, versions[j].ID)
           /\ (s = <<>> /\ Len(versions) > 0) => out = Found(versions[1])

C5_Witness ==
    /\ call.op = "id"
    /\ call.specs[1] = <<"a">>
    /\ Len(versions) = 2
    /\ versions[1].ID = <<"A", "b">>
    /\ versions[2].ID = <<"a", "b">>
    /\ out = Found(versions[2])

\* C6: Resolve(list, s1..sn) returns exactly n records, the i-th being the
\* resolution of si against the list, or an error and no records when some si
\* fails; with no specs it returns exactly element 0.
C6_ResolveAllOrNothing ==
    call.op = "resolve" =>
        LET ss == call.specs
            R(i) == resolveSpec(ss[i], versions, existing)
        IN \/ /\ out.kind = "ok"
              /\ Len(ss) > 0
              /\ Len(out.svs) = Len(ss)
              /\ \A i \in 1..Len(ss) : R(i) = Found(out.svs[i])
           \/ /\ out.kind = "ok"
              /\ Len(ss) = 0
              /\ Len(versions) > 0
              /\ out.svs = <<versions[1]>>
           \/ /\ out.kind = "err"
              /\ out.svs = <<>>
              /\ \/ \E i \in 1..Len(ss) : R(i).kind = "err"
                 \/ Len(ss) = 0 /\ Len(versions) = 0


(***************************************************************************)
(* The cache in use: writes and reads by the backends.                     *)
(***************************************************************************)
ResolveIdle ==
    /\ versions = <<>>
    /\ existing = {}
    /\ call = [op |-> "none", specs |-> <<>>, k |-> 0]
    /\ out = [kind |-> "none"]

\* The name of an entry in the history: the directory its namespace
\* designates and the clear key.
EntryName(t, key) == <<JoinPath(SubdirsOf(t)), key>>

\* The history after a Write by target t: a Write that succeeded is recorded
\* with its bytes; one that failed after touching the file leaves a record
\* that is no longer good.
Remember(t, key, data, w) ==
    LET e == EntryName(t, key)
        touched == w.fs # fs /\ IsFile(w.fs, EntryPathOf(SubdirsOf(t), key))
                     /\ (~IsFile(fs, EntryPathOf(SubdirsOf(t), key))
                         \/ w.fs[EntryPathOf(SubdirsOf(t), key)]
                              # fs[EntryPathOf(SubdirsOf(t), key)])
    IN IF ~Enabled THEN last
       ELSE IF w.err = "nil"
            THEN [x \in DOMAIN last \cup {e} |->
                    IF x = e THEN [data |-> data, by |-> t, good |-> TRUE] ELSE last[x]]
       ELSE IF touched
            THEN [x \in DOMAIN last \cup {e} |->
                    IF x = e THEN [data |-> data, by |-> t, good |-> FALSE] ELSE last[x]]
       ELSE last

\* CacheWriter(be, key, data) of the backend t.
DoWrite(t, key, data, io, n) ==
    LET w == Write(fs, SubdirsOf(t), key, data, io, n, now)
    IN /\ ops < MaxCacheOps
       /\ fs' = w.fs
       /\ last' = Remember(t, key, data, w)
       /\ ops' = ops + 1
       /\ cop' = NoCop
       /\ UNCHANGED <<now, envCache, rvars>>

CacheWrite ==
    \E t \in Targets, key \in ClearKeys, data \in DataSet, io \in IOOutcomes :
        DoWrite(t, key, data, io, ShortLen(data))

\* CacheReader(be, key) of the backend t.
CacheRead ==
    \E t \in Targets, key \in ClearKeys :
        /\ cop' = [op |-> "read", by |-> t, key |-> key,
                   res |-> Read(fs, SubdirsOf(t), key)]
        /\ UNCHANGED <<fs, now, envCache, ops, last, rvars>>

InitCache ==
    /\ ResolveIdle
    /\ fs = EmptyTree
    /\ now = 0
    /\ envCache \in CacheEnvValues
    /\ ops = 0
    /\ cop = NoCop
    /\ last = <<>>

NextCache ==
    \/ CacheWrite
    \/ CacheRead

SpecCache == InitCache /\ [][NextCache]_vars

\* d with its leading and trailing white space removed, stated without
\* TrimSpace: t is the piece of d between a white prefix and a white suffix
\* that neither starts nor ends with white space.
IsTrimmed(t, d) ==
    \E i \in 1..(Len(d) + 1) :
        \E j \in (i - 1)..Len(d) :
            /\ t = SubSeq(d, i, j)
            /\ \A m \in 1..(i - 1) : d[m] \in WhiteSpace
            /\ \A m \in (j + 1)..Len(d) : d[m] \in WhiteSpace
            /\ t # <<>> => (t[1] \notin WhiteSpace /\ t[Len(t)] \notin WhiteSpace)

C8_NoSharedEntry ==
    (cop.op = "read" /\ cop.res.found) =>
        LET e == EntryName(cop.by, cop.key)
        IN e \in DOMAIN last /\ last[e].by = cop.by


(***************************************************************************)
(* Purge on an ageing cache.                                               *)
(***************************************************************************)
\* The entries the purge runs are seeded with: cache files two, three and
\* four directories below the base.
PurgeTargets ==
    {S3Target(<<"e">>, <<"k">>), S3Target(<<"e">>, <<"a", "/", "k">>)}
        \cup RemoteTargets

\* The thresholds handed to Purge: every positive int, zero and a negative.
HourRange == (-1)..MaxInt

SeedWrite ==
    \E t \in PurgeTargets : DoWrite(t, <<"v">>, <<"x">>, "ok", 0)

Tick ==
    /\ now < MaxClock
    /\ now' = now + 1
    /\ cop' = NoCop
    /\ UNCHANGED <<fs, envCache, ops, last, rvars>>

\* PurgeCache() -> cacheutil.Purge(hours).
PurgeCall ==
    \E h \in HourRange :
        LET r == Purge(fs, h, now)
        IN /\ fs' = r.fs
           /\ cop' = [op |-> "purge", hours |-> h, at |-> now, before |-> fs,
                      after |-> r.fs, err |-> r.err]
           /\ last' = [e \in {x \in DOMAIN last :
                                IsFile(r.fs, Append(x[1], encodeKey(x[2])))} |-> last[e]]
           /\ UNCHANGED <<now, envCache, ops, rvars>>

InitPurge ==
    /\ ResolveIdle
    /\ fs = EmptyTree
    /\ now = 0
    /\ envCache = ""
    /\ ops = 0
    /\ cop = NoCop
    /\ last = <<>>

NextPurge ==
    \/ SeedWrite
    \/ Tick
    \/ PurgeCall

SpecPurge == InitPurge /\ [][NextPurge]_vars

\* C9: for a threshold h > 0, Purge(h) removes every file, at any depth, that
\* is more than h hours old, and removes no file that is at most h hours old
\* and no directory; for h <= 0 it removes nothing; it returns no error.
C9_PurgeExactlyOld ==
    cop.op = "purge" =>
        LET B == cop.before
            A == cop.after
            Age(p) == cop.at - B[p].mtime
        IN /\ cop.err = "nil"
           /\ cop.hours <= 0 => A = B
           /\ cop.hours > 0 =>
                \A p \in DOMAIN B :
                    /\ B[p].dir => (p \in DOMAIN A /\ A[p] = B[p])
                    /\ (~B[p].dir /\ Age(p) > cop.hours * Hour) => p \notin DOMAIN A
                    /\ (~B[p].dir /\ Age(p) <= cop.hours * Hour) =>
                            (p \in DOMAIN A /\ A[p] = B[p])


(***************************************************************************)
(* Purge, system call by system call, beside a process that deletes cache  *)
(* entries.                                                                *)
(***************************************************************************)
MaxVanish == 2

\* The bytes that occur in the model's file names, in ascending order.
ByteOrder == <<"#", "%", "a", "b", "e", "h", "k", "o", "u", "v">>
ByteRank(c) == CHOOSE i \in 1..Len(ByteOrder) : ByteOrder[i] = c

\* a < b as strings.
RECURSIVE LessName(_, _)
LessName(a, b) ==
    IF b = <<>> THEN FALSE
    ELSE IF a = <<>> THEN TRUE
    ELSE IF Head(a) = Head(b) THEN LessName(Tail(a), Tail(b))
    ELSE ByteRank(Head(a)) < ByteRank(Head(b))

\* sort.Strings(names).
RECURSIVE SortNames(_)
SortNames(S) ==
    IF S = {} THEN <<>>
    ELSE LET m == CHOOSE x \in S : \A y \in S \ {x} : LessName(x, y)
         IN <<m>> \o SortNames(S \ {m})

Children(f, p) ==
    {q \in DOMAIN f : Len(q) = Len(p) + 1 /\ SubSeq(q, 1, Len(p)) = p}

\* readDirNames(dirname): the names in the directory, sorted.
readDirNames(f, p) == SortNames({q[Len(q)] : q \in Children(f, p)})

\* p and everything below it.
Subtree(f, p) ==
    {q \in DOMAIN f : Len(q) >= Len(p) /\ SubSeq(q, 1, Len(p)) = p}

IsNotExist(e) == e = "ENOENT"

\* The callback hands every error on to Walk.
walkFnErr_Propagate(walkErr) == walkErr

\* The callback's answer to a walkErr that is not nil.
walkFnErr(walkErr) == IF IsNotExist(walkErr) THEN "nil" ELSE walkErr

\* The callback's answer to a file it was handed with its FileInfo: whether
\* it goes on to os.Remove.
walkFnRemoves(info, t, maxAge) == ~info.dir /\ Since(t, info.mtime) > maxAge

Frame(pc, path) == [pc |-> pc, path |-> path]

\* The cache trees a purge may find: some of the entries, each old or fresh.
RECURSIVE SeedTree(_, _)
SeedTree(S, m) ==
    IF S = {} THEN EmptyTree
    ELSE LET t == CHOOSE x \in S : TRUE
             dir == JoinPath(SubdirsOf(t))
         IN PutFile(MkdirAll(SeedTree(S \ {t}, m), dir),
                    Append(dir, encodeKey(<<"v">>)), <<"x">>, m[t])

RaceTrees ==
    {SeedTree(S, m) : S \in SUBSET PurgeTargets \ {{}},
                      m \in [PurgeTargets -> {0, MaxClock}]}

InitPurgeRace ==
    /\ ResolveIdle
    /\ fs \in RaceTrees
    /\ now = MaxClock
    /\ envCache = ""
    /\ ops = 0
    /\ cop = NoCop
    /\ last = <<>>

\* Purge(hours) up to the call of filepath.Walk(base, ...).
PurgeStart ==
    \E h \in HourRange :
        /\ cop.op = "none"
        /\ cop' = [op |-> "walk", hours |-> h, maxAge |-> WrapInt(h * Hour),
                   todo |-> IF h <= 0 THEN <<>> ELSE <<Frame("lstat", <<>>)>>,
                   err |-> "nil", before |-> fs, vanished |-> {}, log |-> <<>>]
        /\ UNCHANGED <<fs, now, envCache, ops, last, rvars>>

\* Walk ends with the callback's error, which Purge wraps.
WalkReturn(c, todo, r, log) ==
    IF r = "nil" THEN [c EXCEPT !.todo = todo, !.log = log]
    ELSE [c EXCEPT !.todo = <<>>, !.err = "failed to purge cache", !.log = log]

\* os.Lstat of the root or of a name read from its directory, and what
\* follows without another system call.
WalkLstat ==
    /\ cop.op = "walk" /\ cop.todo # <<>> /\ Head(cop.todo).pc = "lstat"
    /\ LET p == Head(cop.todo).path
           rest == Tail(cop.todo)
       IN IF ~Exists(fs, p)
          THEN cop' = WalkReturn(cop, rest, walkFnErr("ENOENT"),
                                 Append(cop.log, [ev |-> "miss", path |-> p]))
          ELSE IF fs[p].dir
          THEN cop' = [cop EXCEPT !.todo = <<Frame("readdir", p)>> \o rest]
          ELSE IF walkFnRemoves(fs[p], now, cop.maxAge)
          THEN cop' = [cop EXCEPT !.todo = <<Frame("remove", p)>> \o rest]
          ELSE cop' = [cop EXCEPT !.todo = rest]
    /\ UNCHANGED <<fs, now, envCache, ops, last, rvars>>

\* readDirNames of a directory, then the callback on the directory.
WalkReadDir ==
    /\ cop.op = "walk" /\ cop.todo # <<>> /\ Head(cop.todo).pc = "readdir"
    /\ LET p == Head(cop.todo).path
           rest == Tail(cop.todo)
           names == readDirNames(fs, p)
       IN IF ~Exists(fs, p)
          THEN cop' = WalkReturn(cop, rest, walkFnErr("ENOENT"),
                                 Append(cop.log, [ev |-> "miss", path |-> p]))
          ELSE cop' = [cop EXCEPT !.todo =
                          [i \in 1..Len(names) |-> Frame("lstat", Append(p, names[i]))]
                              \o rest]
    /\ UNCHANGED <<fs, now, envCache, ops, last, rvars>>

\* os.Remove(path) in the callback; its failure is logged only.
WalkRemove ==
    /\ cop.op = "walk" /\ cop.todo # <<>> /\ Head(cop.todo).pc = "remove"
    /\ LET p == Head(cop.todo).path
           rest == Tail(cop.todo)
       IN IF IsFile(fs, p)
          THEN /\ fs' = [q \in DOMAIN fs \ {p} |-> fs[q]]
               /\ cop' = [cop EXCEPT !.todo = rest,
                             !.log = Append(cop.log, [ev |-> "removed", path |-> p])]
          ELSE /\ fs' = fs
               /\ cop' = [cop EXCEPT !.todo = rest,
                             !.log = Append(cop.log, [ev |-> "miss", path |-> p])]
    /\ UNCHANGED <<now, envCache, ops, last, rvars>>

\* Another process deletes an entry, or a directory with all below it, while
\* the walk is under way.
Vanish ==
    \E p \in DOMAIN fs :
        /\ cop.op = "walk" /\ cop.todo # <<>>
        /\ ops < MaxVanish
        /\ ops' = ops + 1
        /\ fs' = [q \in DOMAIN fs \ Subtree(fs, p) |-> fs[q]]
        /\ cop' = [cop EXCEPT !.vanished = cop.vanished \cup Subtree(fs, p)]
        /\ UNCHANGED <<now, envCache, last, rvars>>

NextPurgeRace ==
    \/ PurgeStart
    \/ WalkLstat
    \/ WalkReadDir
    \/ WalkRemove
    \/ Vanish

SpecPurgeRace == InitPurgeRace /\ [][NextPurgeRace]_vars

WalkDone == cop.op = "walk" /\ cop.todo = <<>>

LogHas(ev) == {i \in 1..Len(cop.log) : cop.log[i].ev = ev}

\* C10: when entries vanish while Purge walks the cache, Purge returns no
\* error and deals with all that is left: every file that was due for removal
\* and did not vanish is removed, and nothing else is.
C10_PurgeToleratesVanishing ==
    WalkDone =>
        /\ cop.err = "nil"
        /\ \A p \in DOMAIN cop.before \ cop.vanished :
              IF cop.hours > 0 /\ walkFnRemoves(cop.before[p], now, cop.maxAge)
              THEN p \notin DOMAIN fs
              ELSE p \in DOMAIN fs /\ fs[p] = cop.before[p]

\* A walk that ran into a vanished entry and removed a file after that.
C10_Witness ==
    /\ WalkDone
    /\ cop.vanished # {}
    /\ \E i \in LogHas("miss") : \E j \in LogHas("removed") : i < j


(***************************************************************************)
(* The backends: listing state versions and fetching documents.            *)
(***************************************************************************)
\* A state document {"serial": n}, a JSON document without a serial, and
\* bytes that are not JSON.
Doc(n) == <<"{">> \o Itoa(n) \o <<"}">>
EmptyDoc == <<"{", "}">>
Garbage == <<"x">>

\* Decoding a body into a struct with a serial field: whether it decodes and
\* the serial found (0 when the field is absent).
ParseDoc(b) ==
    IF Len(b) >= 2 /\ b[1] = "{" /\ b[Len(b)] = "}"
    THEN LET inner == SubSeq(b, 2, Len(b) - 1)
         IN IF inner = <<>> THEN [ok |-> TRUE, serial |-> 0]
            ELSE IF \A i \in 1..Len(inner) : IsDigit(inner[i])
                 THEN [ok |-> TRUE, serial |-> DigitsVal(inner)]
            ELSE [ok |-> FALSE, serial |-> 0]
    ELSE [ok |-> FALSE, serial |-> 0]

StateVersion(id, createdAt, serial) ==
    [ID |-> id, Serial |-> serial, CreatedAt |-> createdAt]

Range(q) == {q[i] : i \in 1..Len(q)}

Perms(S) ==
    {q \in [1..Cardinality(S) -> S] : \A i, j \in 1..Cardinality(S) : i # j => q[i] # q[j]}

\* sort.Slice(x, CreatedAt after): any arrangement the comparison allows
\* (the sort is not stable).
SortByCreatedAt(q) ==
    {r \in Perms(Range(q)) :
        \A i, j \in 1..Len(r) : i < j => ~(r[j].CreatedAt > r[i].CreatedAt)}

\* sort.Slice(infos, mod greater).
SortByMod(q) ==
    {r \in Perms(Range(q)) : \A i, j \in 1..Len(r) : i < j => ~(r[j].mod > r[i].mod)}

\* x[:limit] when the guard of the caller holds; a negative limit is a
\* slice-bounds panic.
Truncate(q, limit) ==
    IF limit < 0 THEN Panic ELSE [kind |-> "ok", list |-> SubSeq(q, 1, limit)]

\* The --limit flag: negative, zero, one and the default (99999, more than
\* any listing).
LimitDefault == MaxInt
Limits == {-1, 0, 1, LimitDefault}

\* cache.clean.
CleanHours == {0, 1}

FetchEvent(key, hit, contacted, ret, wrote, werr) ==
    [key |-> key, hit |-> hit, contacted |-> contacted, ret |-> ret,
     wrote |-> wrote, werr |-> werr]

NoBytes == <<"<", "n", "i", "l", ">">>

(***************************************************************************)
(* BackendLocal.StateVersions.                                             *)
(***************************************************************************)
\* The loop over the sorted paths: open, stat, decode; a file that does not
\* decode is skipped.
\* A file that does not decode is listed with serial 0.
RECURSIVE LocalDecode_KeepsUnparsed(_, _)
LocalDecode_KeepsUnparsed(infos, disk) ==
    IF infos = <<>> THEN <<>>
    ELSE LET p == Head(infos).path
             d == ParseDoc(disk[p].body)
         IN <<StateVersion(p, disk[p].mod, d.serial)>>
                \o LocalDecode_KeepsUnparsed(Tail(infos), disk)

RECURSIVE LocalDecode(_, _)
LocalDecode(infos, disk) ==
    IF infos = <<>> THEN <<>>
    ELSE LET p == Head(infos).path
             d == ParseDoc(disk[p].body)
             rest == LocalDecode(Tail(infos), disk)
         IN IF d.ok THEN <<StateVersion(p, disk[p].mod, d.serial)>> \o rest
            ELSE rest

\* The result for the files the glob matched (names, in the glob's order)
\* once sort.Slice has arranged the infos as sorted.
LocalStateVersions(disk, sorted) ==
    [kind |-> "ok", list |-> LocalDecode(sorted, disk)]

\* filepath.Glob(terraform.tfstate*): the names that start with the state
\* file's name.
StateFilePattern == <<"k">>
Glob(names) == {n \in names : HasPrefix(n, StateFilePattern)}

LocalInfos(disk) ==
    LET names == SortNames(Glob(DOMAIN disk))
    IN [i \in 1..Len(names) |-> [path |-> names[i], mod |-> disk[names[i]].mod]]

\* The loop of States over the resolved versions: os.ReadFile of each
\* version's path; the first failure ends it.
RECURSIVE LocalReadAll(_, _)
LocalReadAll(svs, disk) ==
    IF svs = <<>> THEN [kind |-> "ok", bodies |-> <<>>]
    ELSE IF Head(svs).ID \notin DOMAIN disk
    THEN [kind |-> "err", msg |-> "failed to read state file", bodies |-> <<>>]
    ELSE LET rest == LocalReadAll(Tail(svs), disk)
         IN IF rest.kind = "ok"
            THEN [kind |-> "ok", bodies |-> <<disk[Head(svs).ID].body>> \o rest.bodies]
            ELSE rest

\* BackendLocal.States: the listing (its error dropped), Resolve, then the
\* bodies.
LocalStates(disk, sorted, specs, files) ==
    LET candidates == LocalStateVersions(disk, sorted).list
        r == Resolve(candidates, specs, files)
    IN IF r.kind = "panic" THEN [kind |-> "panic", bodies |-> <<>>]
       ELSE IF r.kind = "err" THEN [kind |-> "err", msg |-> r.msg, bodies |-> <<>>]
       ELSE LocalReadAll(r.svs, disk)

\* BackendLocal.State: States of the --sv flag, then the first body.
LocalState(disk, sorted, sv, files) ==
    LET states == LocalStates(disk, sorted, <<sv>>, files)
    IN IF states.kind = "ok" THEN [kind |-> "ok", ret |-> states.bodies[1]]
       ELSE [kind |-> states.kind, ret |-> NoBytes]

(***************************************************************************)
(* BackendRemote.StateVersions.                                            *)
(***************************************************************************)
\* The page size the code asks for when no smaller limit is set (100).
PageSizeMax == 2

Min(a, b) == IF a < b THEN a ELSE b

\* client.StateVersions.List: page n of the server's listing and the number
\* of the next page (0 after the last).
ListPage(listing, n, size) ==
    [Items |-> SubSeq(listing, (n - 1) * size + 1, Min(n * size, Len(listing))),
     NextPage |-> IF n * size >= Len(listing) THEN 0 ELSE n + 1]

\* The pagination loop from page n on.
RECURSIVE Paginate(_, _, _, _, _)
Paginate(listing, n, size, limit, results) ==
    LET page == ListPage(listing, n, size)
        all == results \o page.Items
    IN IF Len(all) >= limit THEN Truncate(all, limit)
       ELSE IF page.NextPage = 0 THEN [kind |-> "ok", list |-> all]
       ELSE Paginate(listing, n + 1, size, limit, all)

\* StateVersions for the flags given: preloaded is be.StateVersionList,
\* shortcut is (sq or si) with --sv 0 and without --diff, listOK is whether
\* the client and the List calls succeed.
RemoteStateVersions(preloaded, listing, flagLimit, shortcut, listOK) ==
    IF Len(preloaded) > 0 THEN [kind |-> "ok", list |-> preloaded]
    ELSE IF ~listOK THEN [kind |-> "err", list |-> <<>>]
    ELSE LET limit == IF shortcut THEN 1 ELSE flagLimit
             pageSize == IF limit > 0 /\ limit < PageSizeMax THEN limit ELSE PageSizeMax
         IN Paginate(listing, 1, pageSize, limit, <<>>)

(***************************************************************************)
(* BackendS3.StateVersions and StateBody; remote.Hitter.                   *)
(***************************************************************************)
\* filepath.Join(Prefix, env, Key) with no workspace selected: the object key.
S3Prefix(t) ==
    IF t.Prefix = <<>> THEN t.Key
    ELSE IF t.Key = <<>> THEN t.Prefix
    ELSE t.Prefix \o <<"/">> \o t.Key

\* The latest delete marker of any key under the prefix.
RECURSIVE MostRecentDelete_AnyKey(_, _)
MostRecentDelete_AnyKey(markers, prefix) ==
    IF markers = {} THEN 0
    ELSE LET d == CHOOSE x \in markers : TRUE
             rest == MostRecentDelete_AnyKey(markers \ {d}, prefix)
         IN IF d.LastModified > rest THEN d.LastModified ELSE rest

\* The time of the latest delete marker of the key (the zero time if none).
RECURSIVE MostRecentDelete(_, _)
MostRecentDelete(markers, prefix) ==
    IF markers = {} THEN 0
    ELSE LET d == CHOOSE x \in markers : TRUE
             rest == MostRecentDelete(markers \ {d}, prefix)
         IN IF d.Key = prefix /\ d.LastModified > rest THEN d.LastModified ELSE rest

\* The loop over the listed versions: key filter, tombstone rule, GetObject,
\* then the cache, then the serial. Returns the cache tree, the records and
\* what happened at each fetch.
RECURSIVE S3Collect(_, _, _, _, _, _, _)
S3Collect(vs, f, t, mrd, io, tnow, acc) ==
    IF vs = <<>> THEN [fs |-> f, list |-> acc.list, log |-> acc.log]
    ELSE LET v == Head(vs)
             entry == Read(f, S3Subdirs(t), v.VersionId)
         IN IF v.Key # S3Prefix(t) \/ v.LastModified < mrd
            THEN S3Collect(Tail(vs), f, t, mrd, io, tnow, acc)
            ELSE IF ~v.getOK
            THEN S3Collect(Tail(vs), f, t, mrd, io, tnow,
                    [acc EXCEPT !.log = Append(@,
                        FetchEvent(v.VersionId, entry.found, TRUE, NoBytes, FALSE, "nil"))])
            ELSE IF ~entry.found
            THEN LET w == Write(f, S3Subdirs(t), v.VersionId, v.Body, io,
                                ShortLen(v.Body), tnow)
                 IN S3Collect(Tail(vs), w.fs, t, mrd, io, tnow,
                        [list |-> Append(acc.list,
                            StateVersion(v.VersionId, v.LastModified, ParseDoc(v.Body).serial)),
                         log |-> Append(acc.log,
                            FetchEvent(v.VersionId, FALSE, TRUE, v.Body, TRUE, w.err))])
            ELSE S3Collect(Tail(vs), f, t, mrd, io, tnow,
                    [list |-> Append(acc.list,
                        StateVersion(v.VersionId, v.LastModified, ParseDoc(entry.data).serial)),
                     log |-> Append(acc.log,
                        FetchEvent(v.VersionId, TRUE, TRUE, entry.data, FALSE, "nil"))])

\* The records whose Serial is not zero.
CurrentVersions_SkipZero(sorted) == SelectSeq(sorted, LAMBDA v : v.Serial # 0)

\* The records before the first one whose Serial is zero.
RECURSIVE CurrentVersions(_)
CurrentVersions(sorted) ==
    IF sorted = <<>> \/ Head(sorted).Serial = 0 THEN <<>>
    ELSE <<Head(sorted)>> \o CurrentVersions(Tail(sorted))

\* The end of StateVersions, once sort.Slice has arranged the records.
S3StateVersions(sorted, limit) ==
    LET current == CurrentVersions(sorted)
    IN IF Len(current) > limit THEN Truncate(current, limit)
       ELSE [kind |-> "ok", list |-> current]

\* StateBody(svID): purge, cache, else GetObject and ReadAll.
S3StateBody(f, t, svID, hours, tnow, origin) ==
    LET f1 == Purge(f, hours, tnow).fs
        entry == Read(f1, S3Subdirs(t), svID)
    IN IF entry.found
       THEN [fs |-> f1, kind |-> "ok", ret |-> entry.data,
             log |-> <<FetchEvent(svID, TRUE, FALSE, entry.data, FALSE, "nil")>>]
       ELSE IF origin.fail
       THEN [fs |-> f1, kind |-> "err", ret |-> NoBytes,
             log |-> <<FetchEvent(svID, FALSE, TRUE, NoBytes, FALSE, "nil")>>]
       ELSE [fs |-> f1, kind |-> "ok", ret |-> origin.body,
             log |-> <<FetchEvent(svID, FALSE, TRUE, origin.body, FALSE, "nil")>>]

\* Hitter(be, url): purge, cache, else GET and write to the cache.
Hitter(f, t, url, hours, tnow, origin, io) ==
    LET f1 == Purge(f, hours, tnow).fs
        entry == Read(f1, RemoteSubdirs(t), url)
        w == Write(f1, RemoteSubdirs(t), url, origin.body, io, ShortLen(origin.body), tnow)
    IN IF entry.found
       THEN [fs |-> f1, kind |-> "ok", ret |-> entry.data,
             log |-> <<FetchEvent(url, TRUE, FALSE, entry.data, FALSE, "nil")>>]
       ELSE IF origin.fail
       THEN [fs |-> f1, kind |-> "err", ret |-> NoBytes,
             log |-> <<FetchEvent(url, FALSE, TRUE, NoBytes, FALSE, "nil")>>]
       ELSE [fs |-> w.fs, kind |-> "ok", ret |-> origin.body,
             log |-> <<FetchEvent(url, FALSE, TRUE, origin.body, TRUE, w.err)>>]

\* StateVersion(svID) once the address is an id: the cache entry decoded, or
\* the API read, marshalled and written to the cache. The body stands for
\* the JSON of the record.
RemoteStateVersion(f, t, svID, origin, io, tnow) ==
    IF Read(f, RemoteSubdirs(t), svID).found
    THEN IF ParseDoc(Read(f, RemoteSubdirs(t), svID).data).ok
         THEN [fs |-> f, kind |-> "ok", ret |-> Read(f, RemoteSubdirs(t), svID).data,
               log |-> <<FetchEvent(svID, TRUE, FALSE,
                                    Read(f, RemoteSubdirs(t), svID).data, FALSE, "nil")>>]
         ELSE [fs |-> f, kind |-> "err", ret |-> NoBytes,
               log |-> <<FetchEvent(svID, TRUE, FALSE, NoBytes, FALSE, "nil")>>]
    ELSE IF origin.fail
    THEN [fs |-> f, kind |-> "err", ret |-> NoBytes,
          log |-> <<FetchEvent(svID, FALSE, TRUE, NoBytes, FALSE, "nil")>>]
    ELSE [fs |-> Write(f, RemoteSubdirs(t), svID, TrimSpace(origin.body), io,
                       ShortLen(TrimSpace(origin.body)), tnow).fs,
          kind |-> "ok", ret |-> TrimSpace(origin.body),
          log |-> <<FetchEvent(svID, FALSE, TRUE, TrimSpace(origin.body), TRUE,
                               Write(f, RemoteSubdirs(t), svID, TrimSpace(origin.body), io,
                                     ShortLen(TrimSpace(origin.body)), tnow).err)>>]

(***************************************************************************)
(* The backends' inputs and calls.                                         *)
(***************************************************************************)
MaxObjects == 2
MaxListing == 3

\* Times of modification and creation.
Stamps == 1..2

FetchS3 == S3Target(<<"e">>, <<"k">>)
FetchRemote == CHOOSE t \in RemoteTargets : TRUE

\* Version ids, by position in a listing.
VersionIds == <<<<"v">>, <<"u">>, <<"a">>, <<"b">>>>

\* The keys ListObjectVersions returns for the prefix: the state object and
\* its lock file.
ObjectKeys == {S3Prefix(FetchS3), S3Prefix(FetchS3) \o <<"l">>}

ObjectVersions(i) ==
    [Key : ObjectKeys, VersionId : {VersionIds[i]}, LastModified : Stamps,
     Body : {Doc(1), Garbage}, getOK : BOOLEAN]

S3Listings ==
    UNION {{q \in [1..n -> UNION {ObjectVersions(i) : i \in 1..n}] :
                \A i \in 1..n : q[i] \in ObjectVersions(i)} : n \in 0..MaxObjects}

DeleteMarkers ==
    {{}, {[Key |-> S3Prefix(FetchS3), LastModified |-> 2]},
     {[Key |-> S3Prefix(FetchS3) \o <<"l">>, LastModified |-> 2]},
     {[Key |-> S3Prefix(FetchS3), LastModified |-> 1],
      [Key |-> S3Prefix(FetchS3) \o <<"l">>, LastModified |-> 2]}}

\* What the origin answers to a GET: a document, or a failure.
OriginReplies ==
    {[fail |-> TRUE, body |-> <<>>, status |-> ""],
     [fail |-> FALSE, body |-> Doc(1), status |-> "200"],
     [fail |-> FALSE, body |-> <<" ">> \o Doc(2) \o <<"\n">>, status |-> "200"]}

\* The body of a response that refuses the request.
Denied == <<"d">>

\* What http.Client.Do gives Hitter: no response at all, a document, or a
\* response with a status that is not a success (Do returns no error for it).
HTTPReplies ==
    OriginReplies \cup {[fail |-> FALSE, body |-> Denied, status |-> s] : s \in {"401", "404"}}

\* The cache a call may find: empty, or holding the entry an earlier fetch
\* wrote for the first key, whole or cut short, old or fresh.
FetchTrees ==
    {EmptyTree} \cup
    {PutFile(MkdirAll(EmptyTree, JoinPath(SubdirsOf(t))),
             EntryPathOf(SubdirsOf(t), VersionIds[1]), d, m) :
        t \in {FetchS3, FetchRemote},
        d \in {Doc(1), SubSeq(Doc(1), 1, ShortLen(Doc(1)))},
        m \in {0, MaxClock}}

\* The server's listing of a workspace's state versions, in the order the
\* API gives them.
ServerListings ==
    UNION {{[i \in 1..n |-> StateVersion(VersionIds[i], c[i], 1)] : c \in [1..n -> Stamps]} :
           n \in 0..MaxListing}

\* be.StateVersionList when StateVersions is called.
Preloaded == {<<>>, <<StateVersion(VersionIds[1], 2, 1), StateVersion(VersionIds[2], 1, 1)>>}

\* The state files in the working directory: terraform.tfstate and
\* terraform.tfstate.backup.
StateFileNames == {<<"k">>, <<"k", "b">>}

\* A file of the directory the pattern does not match.
OtherFileNames == {<<"o">>}

LocalDisks ==
    UNION {[S -> [mod : Stamps, body : {Doc(1), Doc(0), EmptyDoc, Garbage}]] :
           S \in SUBSET (StateFileNames \cup OtherFileNames)}

\* The --sv flag: its default, a serial, and the name of a state file.
SvDefault == <<"0">>
SvFlags == {SvDefault, <<"1">>, <<"k">>}

InitBackend ==
    /\ versions \in Preloaded
    /\ existing = {}
    /\ call = [op |-> "none", specs |-> <<>>, k |-> 0]
    /\ out = [kind |-> "none"]
    /\ fs \in FetchTrees
    /\ now = MaxClock
    /\ envCache \in {"", "0"}
    /\ ops = 0
    /\ cop = NoCop
    /\ last = <<>>

Answer(r) ==
    [kind |-> r.kind,
     list |-> IF r.kind = "ok" THEN r.list ELSE <<>>,
     log |-> <<>>, ret |-> NoBytes]

LocalStateVersionsCall ==
    /\ call.op = "none"
    /\ \E disk \in LocalDisks :
        \E sorted \in SortByMod(LocalInfos(disk)) :
            /\ call' = [op |-> "StateVersions", be |-> "local", disk |-> disk]
            /\ out' = Answer(LocalStateVersions(disk, sorted))
            /\ UNCHANGED <<versions, existing, cvars>>

LocalStateCall ==
    /\ call.op = "none"
    /\ \E disk \in LocalDisks, sv \in SvFlags :
        \E sorted \in SortByMod(LocalInfos(disk)) :
            LET r == LocalState(disk, sorted, sv, DOMAIN disk)
            IN /\ call' = [op |-> "State", be |-> "local", disk |-> disk, sv |-> sv]
               /\ out' = [kind |-> r.kind, list |-> LocalStateVersions(disk, sorted).list,
                          log |-> <<>>, ret |-> r.ret]
               /\ UNCHANGED <<versions, existing, cvars>>

RemoteStateVersionsCall ==
    /\ call.op = "none"
    /\ \E listing \in ServerListings, limit \in Limits, shortcut, listOK \in BOOLEAN :
        /\ call' = [op |-> "StateVersions", be |-> "remote", listing |-> listing,
                    limit |-> limit, shortcut |-> shortcut]
        /\ out' = Answer(RemoteStateVersions(versions, listing, limit, shortcut, listOK))
        /\ UNCHANGED <<versions, existing, cvars>>

\* StateVersions of the object store with the limit flag and the outcome of
\* cache writes drawn from the sets given.
S3StateVersionsStep(limits, ios) ==
    /\ call.op = "none"
    /\ \E listing \in S3Listings, markers \in DeleteMarkers, limit \in limits,
          io \in ios :
        LET c == S3Collect(listing, fs, FetchS3,
                           MostRecentDelete(markers, S3Prefix(FetchS3)), io, now,
                           [list |-> <<>>, log |-> <<>>])
        IN \E sorted \in SortByCreatedAt(c.list) :
            /\ call' = [op |-> "StateVersions", be |-> "s3", listing |-> listing,
                        markers |-> markers, limit |-> limit,
                        subdirs |-> S3Subdirs(FetchS3), collected |-> c.list]
            /\ out' = [Answer(S3StateVersions(sorted, limit)) EXCEPT !.log = c.log]
            /\ fs' = c.fs
            /\ UNCHANGED <<versions, existing, now, envCache, ops, cop, last>>

S3StateVersionsCall == S3StateVersionsStep(Limits, IOOutcomes)

S3StateBodyCall ==
    /\ call.op = "none"
    /\ \E h \in CleanHours, origin \in OriginReplies :
        LET r == S3StateBody(fs, FetchS3, VersionIds[1], h, now, origin)
        IN /\ call' = [op |-> "StateBody", be |-> "s3", subdirs |-> S3Subdirs(FetchS3)]
           /\ out' = [kind |-> r.kind, list |-> <<>>, log |-> r.log, ret |-> r.ret]
           /\ fs' = r.fs
           /\ UNCHANGED <<versions, existing, now, envCache, ops, cop, last>>

HitterCall ==
    /\ call.op = "none"
    /\ \E h \in CleanHours, origin \in HTTPReplies, io \in IOOutcomes :
        LET r == Hitter(fs, FetchRemote, VersionIds[1], h, now, origin, io)
        IN /\ call' = [op |-> "Hitter", be |-> "remote",
                       subdirs |-> RemoteSubdirs(FetchRemote), origin |-> origin]
           /\ out' = [kind |-> r.kind, list |-> <<>>, log |-> r.log, ret |-> r.ret]
           /\ fs' = r.fs
           /\ UNCHANGED <<versions, existing, now, envCache, ops, cop, last>>

RemoteStateVersionStep(r) ==
    /\ call' = [op |-> "StateVersion", be |-> "remote",
                subdirs |-> RemoteSubdirs(FetchRemote)]
    /\ out' = [kind |-> r.kind, list |-> <<>>, log |-> r.log, ret |-> r.ret]
    /\ fs' = r.fs
    /\ UNCHANGED <<versions, existing, now, envCache, ops, cop, last>>

RemoteStateVersionCall ==
    /\ call.op = "none"
    /\ \E origin \in OriginReplies, io \in IOOutcomes :
        RemoteStateVersionStep(
            RemoteStateVersion(fs, FetchRemote, VersionIds[1], origin, io, now))

NextBackend ==
    \/ RemoteStateVersionCall
    \/ LocalStateVersionsCall
    \/ RemoteStateVersionsCall
    \/ S3StateVersionsCall
    \/ S3StateBodyCall
    \/ HitterCall

SpecBackend == InitBackend /\ [][NextBackend]_vars

Descending(list) ==
    \A i, j \in 1..Len(list) : i < j => list[i].CreatedAt >= list[j].CreatedAt

\* C1: whatever the backend, the list StateVersions returns is ordered by
\* CreatedAt descending: no record is followed by a more recent one.
C1_OrderedByCreatedAt ==
    (call.op = "StateVersions" /\ out.kind = "ok") => Descending(out.list)

\* What the fetch path owes for one fetch, the cache being enabled: on a hit
\* the cached bytes and no contact with the origin; on a miss that the origin
\* answers, the fetched bytes, a write to the cache, and the entry there when
\* the write succeeds.
FetchAsClaimed(e, subdirs) ==
    IF e.hit
    THEN ~e.contacted /\ e.ret # NoBytes
    ELSE e.ret # NoBytes =>
            /\ e.wrote
            /\ e.werr = "nil" =>
                    LET r == Read(fs, subdirs, e.key)
                    IN r.found /\ r.data = TrimSpace(e.ret)

\* C2: in Hitter, in the body fetch of the object store's StateVersions and
\* in StateBody, with caching enabled, a cached entry is returned without
\* contacting the origin; otherwise the origin is fetched, the bytes are
\* written to the cache under the key, and a failed write does not fail the
\* fetch.
C2_FetchThroughCache ==
    (Enabled /\ call.op \in {"Hitter", "StateBody", "StateVersions"}) =>
        \A i \in 1..Len(out.log) : FetchAsClaimed(out.log[i], call.subdirs)

(***************************************************************************)
(* Two processes in Write on one entry, system call by system call.        *)
(***************************************************************************)
Writers == {1, 2}

\* The bytes the writers supply: of one length and of different lengths.
RaceData == DataSet \cup {<<"y">>}

RaceSubdirs == RemoteSubdirs(FetchRemote)
RaceKey == <<"v">>
RaceEntry == EntryPathOf(RaceSubdirs, RaceKey)

\* write(2) of data at offset off of a file holding old: the bytes replace
\* what was there and the rest of the file stays.
WriteAt(old, off, data) ==
    SubSeq(old, 1, off) \o data
        \o SubSeq(old, off + Len(data) + 1, Len(old))

InitWriteRace ==
    /\ ResolveIdle
    /\ fs \in {EmptyTree,
               PutFile(MkdirAll(EmptyTree, JoinPath(RaceSubdirs)), RaceEntry, <<"o", "o", "o">>, 0)}
    /\ now = 0
    /\ envCache = ""
    /\ ops = 0
    /\ \E d \in [Writers -> RaceData] :
          cop = [op |-> "writers",
                 w |-> [p \in Writers |-> [pc |-> "mkdir", data |-> d[p], off |-> 0]]]
    /\ last = <<>>

\* os.MkdirAll(dir, 0755).
WriterMkdirAll(p) ==
    /\ cop.op = "writers" /\ cop.w[p].pc = "mkdir"
    /\ fs' = MkdirAll(fs, JoinPath(RaceSubdirs))
    /\ cop' = [cop EXCEPT !.w[p].pc = "open"]
    /\ UNCHANGED <<now, envCache, ops, last, rvars>>

\* os.WriteFile: OpenFile(p, O_WRONLY|O_CREATE|O_TRUNC, 0600).
WriterOpen(p) ==
    /\ cop.op = "writers" /\ cop.w[p].pc = "open"
    /\ fs' = PutFile(fs, RaceEntry, <<>>, now)
    /\ cop' = [cop EXCEPT !.w[p].pc = "write", !.w[p].off = 0]
    /\ UNCHANGED <<now, envCache, ops, last, rvars>>

\* os.WriteFile: f.Write(data) at the descriptor's own offset, then Close.
WriterWrite(p) ==
    /\ cop.op = "writers" /\ cop.w[p].pc = "write"
    /\ fs' = PutFile(fs, RaceEntry,
                     WriteAt(fs[RaceEntry].data, cop.w[p].off, cop.w[p].data), now)
    /\ cop' = [cop EXCEPT !.w[p].pc = "done", !.w[p].off = Len(cop.w[p].data)]
    /\ UNCHANGED <<now, envCache, ops, last, rvars>>

\* A third process calls Read for the entry, once, at any moment.
ReaderRead ==
    /\ cop.op = "writers" /\ out.kind = "none"
    /\ out' = [kind |-> "read", found |-> Read(fs, RaceSubdirs, RaceKey).found,
               data |-> Read(fs, RaceSubdirs, RaceKey).data]
    /\ UNCHANGED <<versions, existing, call, cvars>>

NextWriteRace ==
    \/ \E p \in Writers :
        \/ WriterMkdirAll(p)
        \/ WriterOpen(p)
        \/ WriterWrite(p)
    \/ ReaderRead

SpecWriteRace == InitWriteRace /\ [][NextWriteRace]_vars

WritersDone == cop.op = "writers" /\ \A p \in Writers : cop.w[p].pc = "done"

\* C11: when two processes have written the same entry concurrently and both
\* have finished, the entry holds the bytes of one of them, never a mixture.
C11_LastWriterWins ==
    WritersDone => \E p \in Writers : fs[RaceEntry].data = cop.w[p].data

(***************************************************************************)
(* backend.NewBackend.                                                     *)
(***************************************************************************)
Absent == "<absent>"

\* Values of a "type" member: the four known backends, an unknown one and
\* the empty string.
TypeVals == {"cloud", "local", "remote", "s3", "gcs", ""}

\* What .terraform/terraform.tfstate holds: whether it is a JSON object,
\* whether it has a "backend" object, the "type" member of that object and of
\* the top level (or Absent), and whether the whole document unmarshals into
\* the backend structs (every member of the type the struct declares).
PointerFiles ==
    [json : BOOLEAN, backend : BOOLEAN, beType : TypeVals \cup {Absent},
     topType : TypeVals \cup {Absent}, fits : BOOLEAN]

\* peek: the "type" found after unmarshalling the "backend" object into the
\* map that already holds the top-level members.
peek(f) ==
    LET typ == IF f.beType # Absent THEN f.beType ELSE f.topType
    IN IF ~f.json THEN [err |-> "can't peek", typ |-> ""]
       ELSE IF ~f.backend THEN [err |-> "can't peek", typ |-> ""]
       ELSE IF typ = Absent THEN [err |-> "can't peek", typ |-> ""]
       ELSE [err |-> "nil", typ |-> typ]

\* load of the backend of type want from a pointer file that exists.
load(f, want) ==
    IF ~f.json \/ ~f.fits THEN "failed to unmarshal local config file"
    ELSE IF ~f.backend \/ f.beType # want THEN "backend type is not " \o want
    ELSE "nil"

Built(chosen, be, err) ==
    [kind |-> IF err = "nil" THEN "ok" ELSE "err", chosen |-> chosen,
     be |-> IF err = "nil" THEN be ELSE "none"]

\* The cloud case: NewBackendCloud, then Transform2Remote on what it returned,
\* which is nil when the load failed.
CloudCase(f) ==
    IF load(f, "cloud") # "nil" THEN [kind |-> "panic", chosen |-> "cloud", be |-> "none"]
    ELSE Built("cloud", "remote", "nil")

\* NewBackend for the marker files that os.Stat finds (c: the pointer
\* .terraform/terraform.tfstate, s: terraform.tfstate, e:
\* .terraform/environment) and the pointer's content.
NewBackend(c, s, e, f) ==
    IF ~c /\ ~s /\ ~e THEN Built("naked", "remote", "nil")
    ELSE IF ~c /\ s THEN Built("local", "local", "nil")
    ELSE IF ~c /\ ~s /\ e THEN Built("local", "local", "nil")
    ELSE LET p == peek(f)
         IN IF p.err # "nil" THEN Built("none", "none", p.err)
            ELSE CASE p.typ = "cloud" -> CloudCase(f)
                   [] p.typ = "local" -> Built("local", "local", load(f, "local"))
                   [] p.typ = "remote" -> Built("remote", "remote", load(f, "remote"))
                   [] p.typ = "s3" -> Built("s3", "s3", load(f, "s3"))
                   [] OTHER -> Built("none", "none", "unknown type")

InitNewBackend ==
    /\ ResolveIdle
    /\ CacheIdle

NewBackendCall ==
    /\ call.op = "none"
    /\ \E c, s, e \in BOOLEAN, f \in PointerFiles :
        /\ call' = [op |-> "NewBackend", c |-> c, s |-> s, e |-> e, f |-> f]
        /\ out' = NewBackend(c, s, e, f)
        /\ UNCHANGED <<versions, existing, cvars>>

NextNewBackend == NewBackendCall

SpecNewBackend == InitNewBackend /\ [][NextNewBackend]_vars

\* The backend the discriminator names.
Named(typ) ==
    CASE typ = "cloud" -> "remote"
      [] typ = "local" -> "local"
      [] typ = "remote" -> "remote"
      [] typ = "s3" -> "s3"
      [] OTHER -> "none"

\* C12: NewBackend returns, and what it returns follows from the marker
\* files: none of them gives a bare Remote; no pointer but a state file or an
\* environment file gives Local; a pointer gives the backend its type
\* discriminator names, or an error when that backend cannot be built, and an
\* error and no backend for any other discriminator.
C12_BackendChoice ==
    call.op = "NewBackend" =>
        /\ out.kind # "panic"
        /\ (~call.c /\ ~call.s /\ ~call.e) => (out.chosen = "naked" /\ out.be = "remote")
        /\ (~call.c /\ (call.s \/ call.e)) => out.be = "local"
        /\ call.c =>
              LET d == IF call.f.json /\ call.f.backend THEN call.f.beType ELSE Absent
              IN IF Named(d) = "none" THEN out.kind = "err" /\ out.be = "none"
                 ELSE out.be \in {Named(d), "none"} /\ (out.be = "none" <=> out.kind = "err")

(***************************************************************************)
(* state.DecryptOpenTofuState.                                             *)
(*                                                                         *)
(* The ciphers are symbolic: a key is what it was derived from, a sealed    *)
(* byte carries its key, and the tag carries all it authenticates.          *)
(***************************************************************************)
\* aesGCM.NonceSize() (12 bytes) and the one AES key length of the model
\* (16, 24 or 32 bytes), in the model's units.
NonceSize == 2
AESKeyLen == 2

Passphrases == {"P", "Q"}
Plaintexts == {<<>>, <<"x", "y">>}

\* key_length values in the parameter document.
KeyLengths == {-1, 0, 1, AESKeyLen}

\* pbkdf2.Key(passphrase, salt, iterations, keyLength, sha512.New): the key,
\* or a panic when keyLength is negative (the slice dk[:keyLen]).
pbkdf2Key(passphrase, salt, iter, keyLen) ==
    IF keyLen < 0 THEN Panic
    ELSE [kind |-> "ok", key |-> [pass |-> passphrase, salt |-> salt, iter |-> iter, len |-> keyLen]]

Nonce == [i \in 1..NonceSize |-> [t |-> "nonce", v |-> i]]

TagOf(key, nonce, body) == [t |-> "tag", key |-> key, nonce |-> nonce, body |-> body]

\* aesGCM.Seal: nonce, sealed bytes, tag.
Seal(key, plain) ==
    LET body == [i \in 1..Len(plain) |-> [t |-> "ct", v |-> plain[i], key |-> key]]
    IN Nonce \o body \o <<TagOf(key, Nonce, body)>>

\* aesGCM.Open(nil, nonce, encrypted, nil).
Open(key, nonce, encrypted) ==
    IF encrypted = <<>> THEN [ok |-> FALSE, plain |-> <<>>]
    ELSE LET body == SubSeq(encrypted, 1, Len(encrypted) - 1)
         IN IF encrypted[Len(encrypted)] = TagOf(key, nonce, body)
            THEN [ok |-> TRUE, plain |-> [i \in 1..Len(body) |-> body[i].v]]
            ELSE [ok |-> FALSE, plain |-> <<>>]

Decrypted(plain) == [kind |-> "ok", plain |-> plain, err |-> "nil"]
DecryptError(e) == [kind |-> "err", plain |-> NoBytes, err |-> e]

\* decryptState(encryptedData, derivedKey): b64 says whether encryptedData
\* is base64, ciphertext is what it decodes to.
decryptState(b64, ciphertext, key) ==
    IF ~b64 THEN DecryptError("failed to decode base64")
    ELSE IF key.len # AESKeyLen THEN DecryptError("failed to create cipher")
    ELSE IF Len(ciphertext) < NonceSize THEN DecryptError("ciphertext too short")
    ELSE LET o == Open(key, SubSeq(ciphertext, 1, NonceSize),
                       SubSeq(ciphertext, NonceSize + 1, Len(ciphertext)))
         IN IF o.ok THEN Decrypted(o.plain) ELSE DecryptError("failed to decrypt")

\* DecryptOpenTofuState(stateData, passphrase) for an envelope e.
DecryptOpenTofuState(e, passphrase) ==
    IF ~e.json THEN DecryptError("failed to parse state")
    ELSE IF ~e.keyB64 THEN DecryptError("failed to decode key provider config")
    ELSE IF ~e.paramsJSON THEN DecryptError("failed to parse key provider config")
    ELSE IF ~e.saltB64 THEN DecryptError("failed to decode salt")
    ELSE LET k == pbkdf2Key(passphrase, "salt", 1, e.keyLength)
         IN IF k.kind = "panic" THEN [kind |-> "panic", plain |-> NoBytes, err |-> "nil"]
            ELSE decryptState(e.dataB64, e.ciphertext, k.key)

\* The key an envelope was sealed with.
SealKey == pbkdf2Key("P", "salt", 1, AESKeyLen).key

\* A sealed envelope with one byte replaced.
Corrupt(c, i) == [c EXCEPT ![i] = [t |-> "junk", v |-> i]]

\* Ciphertexts: sealed, cut short by any amount, or with one byte replaced.
Ciphertexts ==
    UNION {{SubSeq(Seal(SealKey, pl), 1, n) : n \in 0..Len(Seal(SealKey, pl))}
             \cup {Corrupt(Seal(SealKey, pl), i) : i \in 1..Len(Seal(SealKey, pl))} :
           pl \in Plaintexts}

Envelopes ==
    [json : BOOLEAN, keyB64 : BOOLEAN, paramsJSON : BOOLEAN, saltB64 : BOOLEAN,
     keyLength : KeyLengths, dataB64 : BOOLEAN, ciphertext : Ciphertexts]

InitDecrypt ==
    /\ ResolveIdle
    /\ CacheIdle

DecryptCall ==
    /\ call.op = "none"
    /\ \E e \in Envelopes, pw \in Passphrases :
        /\ call' = [op |-> "Decrypt", e |-> e, passphrase |-> pw]
        /\ out' = DecryptOpenTofuState(e, pw)
        /\ UNCHANGED <<versions, existing, cvars>>

NextDecrypt == DecryptCall

SpecDecrypt == InitDecrypt /\ [][NextDecrypt]_vars

\* The envelope is well formed up to the ciphertext.
WellFormed(e) == e.json /\ e.keyB64 /\ e.paramsJSON /\ e.saltB64 /\ e.dataB64

\* C13: DecryptOpenTofuState returns (it does not panic); plaintext comes
\* back only from a whole envelope opened with the passphrase that sealed it;
\* malformed base64, a malformed parameter document, a ciphertext shorter
\* than the nonce and a failed authentication each give their own error and
\* no plaintext.
C13_DecryptOrError ==
    call.op = "Decrypt" =>
        LET e == call.e
            whole == \E pl \in Plaintexts :
                        e.ciphertext = Seal(SealKey, pl) /\ out.plain = pl
        IN /\ out.kind # "panic"
           /\ out.kind = "ok" => (WellFormed(e) /\ call.passphrase = "P" /\ whole)
           /\ out.kind = "err" => out.plain = NoBytes
           /\ (e.json /\ ~e.keyB64) => out.err = "failed to decode key provider config"
           /\ (e.json /\ e.keyB64 /\ ~e.paramsJSON) =>
                    out.err = "failed to parse key provider config"
           /\ (WellFormed(e) /\ e.keyLength = AESKeyLen) =>
                 IF Len(e.ciphertext) < NonceSize THEN out.err = "ciphertext too short"
                 ELSE IF call.passphrase = "P" /\ \E pl \in Plaintexts : e.ciphertext = Seal(SealKey, pl)
                      THEN out.kind = "ok"
                      ELSE out.err = "failed to decrypt"

(***************************************************************************)
(* The object store's key filter and tombstone rule.                       *)
(***************************************************************************)
\* The object store's StateVersions alone, on an empty cache or one that
\* holds the first version's body.
InitS3Versions ==
    /\ ResolveIdle
    /\ fs \in {EmptyTree,
               PutFile(MkdirAll(EmptyTree, JoinPath(S3Subdirs(FetchS3))),
                       EntryPathOf(S3Subdirs(FetchS3), VersionIds[1]), Doc(1), 0)}
    /\ now = 0
    /\ envCache = ""
    /\ ops = 0
    /\ cop = NoCop
    /\ last = <<>>

S3VersionsListed == S3StateVersionsStep({1, LimitDefault}, {"ok"})

NextS3Versions == S3VersionsListed

SpecS3Versions == InitS3Versions /\ [][NextS3Versions]_vars

S3Call == call.op = "StateVersions" /\ call.be = "s3"

\* The time of the latest delete marker of the target key in the call.
LatestOwnMarker ==
    LET own == {d \in call.markers : d.Key = S3Prefix(FetchS3)}
    IN IF own = {} THEN 0
       ELSE CHOOSE t \in {d.LastModified : d \in own} :
                \A d \in own : d.LastModified <= t

\* The listed versions of the target key that are not older than that marker.
Alive ==
    {i \in 1..Len(call.listing) :
        /\ call.listing[i].Key = S3Prefix(FetchS3)
        /\ call.listing[i].LastModified >= LatestOwnMarker}

\* C14: the versions the object store's StateVersions goes on with are those
\* of exactly the target key that are not older than the latest delete marker
\* of that key, whatever markers other keys have, and every record returned
\* is one of them.
C14_TombstoneRule ==
    S3Call =>
        /\ {out.log[i].key : i \in 1..Len(out.log)}
              = {call.listing[i].VersionId : i \in Alive}
        /\ \A j \in 1..Len(out.list) :
              \E i \in Alive :
                  /\ call.listing[i].VersionId = out.list[j].ID
                  /\ call.listing[i].LastModified = out.list[j].CreatedAt

\* A version older than the key's delete marker is left out and one that is
\* not older is returned.
C14_Witness ==
    /\ S3Call
    /\ out.kind = "ok"
    /\ LatestOwnMarker > 0
    /\ Len(out.list) = 1
    /\ \E i \in 1..Len(call.listing) :
          /\ call.listing[i].Key = S3Prefix(FetchS3)
          /\ call.listing[i].LastModified < LatestOwnMarker

(***************************************************************************)
(* The local backend: the listing of the state files and the current       *)
(* document.                                                               *)
(***************************************************************************)
InitLocal == ResolveIdle /\ CacheIdle

NextLocal ==
    \/ LocalStateVersionsCall
    \/ LocalStateCall

SpecLocal == InitLocal /\ [][NextLocal]_vars

LocalCall == call.op \in {"StateVersions", "State"} /\ call.be = "local"

\* The files of the directory that match the pattern and parse.
Parsed(disk) == {n \in DOMAIN disk : HasPrefix(n, StateFilePattern) /\ ParseDoc(disk[n].body).ok}

NameFound(n) == [kind |-> "ok", name |-> n, err |-> "nil"]
NameError(e) == [kind |-> "err", name |-> <<>>, err |-> e]

\* Organization: the --org flag when set and not empty, then the pointer
\* file's organization, then the org entry of the user configuration.
Organization(flagSet, flagOrg, backendOrg, cfg) ==
    IF flagSet /\ flagOrg # <<>> THEN NameFound(flagOrg)
    ELSE IF backendOrg # <<>> THEN NameFound(backendOrg)
    ELSE IF cfg.err = "nil" /\ cfg.val # <<>> THEN NameFound(cfg.val)
    ELSE NameError("ErrOrganizationNotSet")

\* WorkspaceName: the --workspace flag, then the pointer file's workspace
\* name, then its prefix followed by the selected environment.
WorkspaceName(flagWs, name, prefix, envFile, envOverride) ==
    IF flagWs # <<>> THEN NameFound(flagWs)
    ELSE IF name # <<>> /\ prefix # <<>> THEN NameError("ErrWorkspaceNameAndPrefixBothSet")
    ELSE IF name # <<>> THEN NameFound(name)
    ELSE LET env0 == IF envFile.exists THEN TrimSpace(envFile.data) ELSE <<>>
             env == IF envOverride # <<>> THEN envOverride ELSE env0
         IN NameFound(prefix \o env)

\* config.GetString("org"): the value and whether the lookup failed.
OrgConfigs == [val : {<<>>, <<"c">>}, err : {"nil", "missing"}]

\* The .terraform/environment file.
EnvFiles ==
    {[exists |-> FALSE, data |-> <<>>]} \cup
    [exists : {TRUE}, data : {<<>>, <<"e">>, <<"e", "\n">>, <<" ">>}]

InitNames == ResolveIdle /\ CacheIdle

OrganizationCall ==
    /\ call.op = "none"
    /\ \E flagSet \in BOOLEAN, flagOrg \in {<<>>, <<"a">>}, backendOrg \in {<<>>, <<"b">>},
          cfg \in OrgConfigs :
        /\ call' = [op |-> "Organization", flagSet |-> flagSet, flagOrg |-> flagOrg,
                    backendOrg |-> backendOrg, cfg |-> cfg]
        /\ out' = Organization(flagSet, flagOrg, backendOrg, cfg)
        /\ UNCHANGED <<versions, existing, cvars>>

WorkspaceNameCall ==
    /\ call.op = "none"
    /\ \E flagWs \in {<<>>, <<"w">>}, name \in {<<>>, <<"n">>}, prefix \in {<<>>, <<"p">>},
          envFile \in EnvFiles, envOverride \in {<<>>, <<"o">>} :
        /\ call' = [op |-> "WorkspaceName", flagWs |-> flagWs, name |-> name,
                    prefix |-> prefix, envFile |-> envFile, envOverride |-> envOverride]
        /\ out' = WorkspaceName(flagWs, name, prefix, envFile, envOverride)
        /\ UNCHANGED <<versions, existing, cvars>>

NextNames ==
    \/ OrganizationCall
    \/ WorkspaceNameCall

SpecNames == InitNames /\ [][NextNames]_vars

\* C16: Organization and WorkspaceName never return an empty name with a nil
\* error; when no tier supplies a value each returns an error.
C16_NamedErrorWhenUnresolved ==
    call.op \in {"Organization", "WorkspaceName"} =>
        (out.kind = "ok" => out.name # <<>>)

(***************************************************************************)
(* DiffStates of the three backends.                                       *)
(***************************************************************************)
DefaultDiffSpecs == <<CSVPrefix \o <<"1">>, CSVPrefix \o <<"0">>>>

\* The switch on the arguments after --diff: the two specs, or none when the
\* selection came back empty. selected is what the picker returned.
DiffSpecs(diffArgs, selected) ==
    IF Len(diffArgs) = 0 THEN DefaultDiffSpecs
    ELSE IF Len(diffArgs) = 1
    THEN IF HasPrefix(diffArgs[1], <<"+">>)
         THEN IF Len(selected) = 0 THEN <<>>
              ELSE IF Len(selected) = 2 THEN <<selected[2].ID, selected[1].ID>>
              ELSE DefaultDiffSpecs
         ELSE <<diffArgs[1], DefaultDiffSpecs[2]>>
    ELSE diffArgs

\* What DiffStates returns: the documents, the error, and what States
\* returned to it ("none" when it was not called).
DiffResult(kind, docs, inner) ==
    [kind |-> kind, docs |-> docs, inner |-> inner, list |-> <<>>, log |-> <<>>,
     ret |-> NoBytes]

\* differ.Diff(ctx, cmd, states): states[0] and states[1] are read before
\* anything else; an empty document ends it without a comparison.
Diff(states) ==
    IF Len(states) = 0 THEN "panic"
    ELSE IF Len(states[1]) = 0 THEN "nil"
    ELSE IF Len(states) = 1 THEN "panic"
    ELSE IF Len(states[2]) = 0 THEN "nil"
    ELSE "compared"

\* The --diff branch of sqCommandAction: the error of DiffStates is returned,
\* anything else goes to Diff.
sqCommandAction(res) == IF res.kind # "ok" THEN res.kind ELSE Diff(res.docs)

\* The result of DiffStates with what sq made of it.
SqDiff(res) == res @@ [sq |-> sqCommandAction(res)]

\* What DiffStates makes of the result of States when it drops its error.
DroppingError(states) ==
    IF states.kind = "panic" THEN DiffResult("panic", <<>>, "panic")
    ELSE DiffResult("ok", states.bodies, states.kind)

\* What DiffStates makes of the result of States when it returns its error.
ReturningError(states) ==
    IF states.kind = "ok" THEN DiffResult("ok", states.bodies, "ok")
    ELSE DiffResult(states.kind, <<>>, states.kind)

\* BackendLocal.DiffStates: the error of States is dropped.
LocalDiffStates(disk, sorted, diffArgs, selected, files) ==
    IF DiffSpecs(diffArgs, selected) = <<>> THEN DiffResult("ok", <<>>, "none")
    ELSE DroppingError(LocalStates(disk, sorted, DiffSpecs(diffArgs, selected), files))

\* One more body in front of the rest, unless the rest failed.
JoinBodies(b, rest) ==
    IF rest.kind = "ok" THEN [rest EXCEPT !.bodies = <<b.ret>> \o @] ELSE rest

RECURSIVE S3ReadAll(_, _, _, _, _)
\* The end of one round of the loop of BackendS3.States, b being what
\* StateBody returned.
S3ReadNext(b, svs, hours, tnow, origin) ==
    IF b.kind # "ok" THEN [fs |-> b.fs, kind |-> "err", bodies |-> <<>>]
    ELSE JoinBodies(b, S3ReadAll(Tail(svs), b.fs, hours, tnow, origin))

\* The loop of BackendS3.States over the resolved versions: StateBody of
\* each; the first failure ends it.
S3ReadAll(svs, f, hours, tnow, origin) ==
    IF svs = <<>> THEN [fs |-> f, kind |-> "ok", bodies |-> <<>>]
    ELSE S3ReadNext(S3StateBody(f, FetchS3, Head(svs).ID, hours, tnow, origin),
                    svs, hours, tnow, origin)

\* States after Resolve returned r.
S3Resolved(r, f, hours, tnow, origin) ==
    IF r.kind # "ok" THEN [fs |-> f, kind |-> r.kind, bodies |-> <<>>]
    ELSE S3ReadAll(r.svs, f, hours, tnow, origin)

\* BackendS3.States for the records StateVersions produced (its error
\* dropped).
S3States(candidates, f, specs, hours, tnow, origin) ==
    S3Resolved(Resolve(candidates, specs, {}), f, hours, tnow, origin)

\* The tree and the result of a DiffStates whose States returned states.
DiffDone(states, res) == [fs |-> states.fs, res |-> res]

\* BackendS3.DiffStates: the error of States is dropped.
S3DiffStates(candidates, f, diffArgs, selected, hours, tnow, origin) ==
    IF DiffSpecs(diffArgs, selected) = <<>>
    THEN [fs |-> f, res |-> DiffResult("ok", <<>>, "none")]
    ELSE DiffDone(S3States(candidates, f, DiffSpecs(diffArgs, selected), hours, tnow, origin),
                  DroppingError(S3States(candidates, f, DiffSpecs(diffArgs, selected),
                                         hours, tnow, origin)))

RECURSIVE RemoteReadAll(_, _, _, _, _, _)
\* The end of one round of the loop of BackendRemote.States, b being what
\* Hitter returned.
RemoteReadNext(b, svs, hours, tnow, origin, io) ==
    IF b.kind # "ok" THEN [fs |-> b.fs, kind |-> "err", bodies |-> <<>>]
    ELSE JoinBodies(b, RemoteReadAll(Tail(svs), b.fs, hours, tnow, origin, io))

\* The loop of BackendRemote.States: Hitter of each version's URL.
RemoteReadAll(svs, f, hours, tnow, origin, io) ==
    IF svs = <<>> THEN [fs |-> f, kind |-> "ok", bodies |-> <<>>]
    ELSE RemoteReadNext(Hitter(f, FetchRemote, Head(svs).ID, hours, tnow, origin, io),
                        svs, hours, tnow, origin, io)

\* States after Resolve returned r.
RemoteResolved(r, f, hours, tnow, origin, io) ==
    IF r.kind # "ok" THEN [fs |-> f, kind |-> r.kind, bodies |-> <<>>]
    ELSE RemoteReadAll(r.svs, f, hours, tnow, origin, io)

\* BackendRemote.States: the listing's error, Resolve's and Hitter's are
\* returned.
RemoteStates(listed, f, specs, hours, tnow, origin, io) ==
    IF listed.kind # "ok" THEN [fs |-> f, kind |-> listed.kind, bodies |-> <<>>]
    ELSE RemoteResolved(Resolve(listed.list, specs, {}), f, hours, tnow, origin, io)

\* BackendRemote.DiffStates: the error of States is wrapped and returned.
RemoteDiffStates(listed, f, diffArgs, selected, hours, tnow, origin, io) ==
    IF Len(diffArgs) = 1 /\ HasPrefix(diffArgs[1], <<"+">>) /\ listed.kind # "ok"
    THEN [fs |-> f, res |-> DiffResult(listed.kind, <<>>, "none")]
    ELSE IF DiffSpecs(diffArgs, selected) = <<>>
    THEN [fs |-> f, res |-> DiffResult("ok", <<>>, "none")]
    ELSE DiffDone(RemoteStates(listed, f, DiffSpecs(diffArgs, selected), hours, tnow,
                               origin, io),
                  ReturningError(RemoteStates(listed, f, DiffSpecs(diffArgs, selected),
                                              hours, tnow, origin, io)))

\* What the picker may return for a list: nothing, one record, or two
\* different records in the order they were picked.
Selections(list) ==
    LET idx == 1..Len(list)
    IN {<<>>} \cup {<<list[i]>> : i \in idx}
              \cup {<<list[p[1]], list[p[2]]>> : p \in {q \in idx \X idx : q[1] # q[2]}}

\* The arguments after --diff, over the specs given: none, "+", one, two.
DiffArgLists(S) ==
    {<<>>, <<<<"+">>>>} \cup {<<a>> : a \in S} \cup {<<a, b>> : a \in S, b \in S}

\* The selection when the argument is "+", nothing otherwise.
Picked(diffArgs, list) ==
    IF Len(diffArgs) = 1 /\ HasPrefix(diffArgs[1], <<"+">>) THEN Selections(list)
    ELSE {<<>>}

\* A serial, an ID and a spec that matches nothing.
LocalDiffSpecs == {<<"1">>, <<"k">>, <<"z">>}
ObjectDiffSpecs == {<<"1">>, VersionIds[1], <<"z">>}

\* Listings of the state object's own versions.
OwnListings ==
    {l \in S3Listings : \A i \in 1..Len(l) : l[i].Key = S3Prefix(FetchS3)}

InitDiff ==
    /\ versions \in Preloaded
    /\ existing = {}
    /\ call = [op |-> "none", specs |-> <<>>, k |-> 0]
    /\ out = [kind |-> "none"]
    /\ fs = EmptyTree
    /\ now = MaxClock
    /\ envCache = ""
    /\ ops = 0
    /\ cop = NoCop
    /\ last = <<>>

LocalDiffStatesCall ==
    /\ call.op = "none"
    /\ \E disk \in LocalDisks, diffArgs \in DiffArgLists(LocalDiffSpecs) :
        \E sorted \in SortByMod(LocalInfos(disk)) :
            \E selected \in Picked(diffArgs, LocalStateVersions(disk, sorted).list) :
                /\ call' = [op |-> "DiffStates", be |-> "local", disk |-> disk,
                            diffArgs |-> diffArgs, selected |-> selected]
                /\ out' = SqDiff(LocalDiffStates(disk, sorted, diffArgs, selected,
                                                 DOMAIN disk))
                /\ UNCHANGED <<versions, existing, cvars>>

\* DiffStates of the object store for the records the listing produced and
\* the tree it left.
S3DiffStep(listing, candidates, f, diffArgs, h, origin) ==
    \E selected \in Picked(diffArgs, candidates) :
        /\ call' = [op |-> "DiffStates", be |-> "s3", listing |-> listing,
                    diffArgs |-> diffArgs, selected |-> selected]
        /\ out' = SqDiff(S3DiffStates(candidates, f, diffArgs, selected, h, now, origin).res)
        /\ fs' = S3DiffStates(candidates, f, diffArgs, selected, h, now, origin).fs
        /\ UNCHANGED <<versions, existing, now, envCache, ops, cop, last>>

\* What the loop of StateVersions collects from a listing without delete
\* markers.
DiffCollect(listing) ==
    S3Collect(listing, fs, FetchS3, 0, "ok", now, [list |-> <<>>, log |-> <<>>])

\* The listing is made first; a second listing within the call finds what the
\* first one wrote to the cache and yields the same records.
S3DiffStatesCall ==
    /\ call.op = "none"
    /\ \E listing \in OwnListings, diffArgs \in DiffArgLists(ObjectDiffSpecs),
          h \in CleanHours, origin \in OriginReplies :
        \E sorted \in SortByCreatedAt(DiffCollect(listing).list) :
            S3DiffStep(listing, S3StateVersions(sorted, LimitDefault).list,
                       DiffCollect(listing).fs, diffArgs, h, origin)

\* DiffStates of the remote backend once StateVersions returned listed.
RemoteDiffStep(listing, listed, diffArgs, h, origin, io) ==
    \E selected \in Picked(diffArgs, listed.list) :
        /\ call' = [op |-> "DiffStates", be |-> "remote", listing |-> listing,
                    diffArgs |-> diffArgs, selected |-> selected]
        /\ out' = SqDiff(RemoteDiffStates(listed, fs, diffArgs, selected, h, now, origin,
                                          io).res)
        /\ fs' = RemoteDiffStates(listed, fs, diffArgs, selected, h, now, origin, io).fs
        /\ versions' = IF Len(diffArgs) = 1 /\ HasPrefix(diffArgs[1], <<"+">>)
                          /\ listed.kind = "ok"
                       THEN listed.list ELSE versions
        /\ UNCHANGED <<existing, now, envCache, ops, cop, last>>

\* With "+" the listing is kept in be.StateVersionList.
RemoteDiffStatesCall ==
    /\ call.op = "none"
    /\ \E listing \in ServerListings, listOK \in BOOLEAN,
          diffArgs \in DiffArgLists(ObjectDiffSpecs),
          h \in CleanHours, origin \in OriginReplies, io \in {"ok", "mkdir_fail"} :
        RemoteDiffStep(listing,
                       RemoteStateVersions(versions, listing, LimitDefault, FALSE, listOK),
                       diffArgs, h, origin, io)

NextDiff ==
    \/ LocalDiffStatesCall
    \/ S3DiffStatesCall
    \/ RemoteDiffStatesCall

SpecDiff == InitDiff /\ [][NextDiff]_vars

\* C17: on each of the three backends, when resolving or fetching one of the
\* two addresses fails, DiffStates returns an error; it does not return a nil
\* error with fewer than two documents.
C17_DiffStatesReportsFailure ==
    (call.op = "DiffStates" /\ out.inner = "err") =>
        /\ out.kind = "err"
        /\ ~(out.kind = "ok" /\ Len(out.docs) < 2)

(***************************************************************************)
(* The rq command: listing runs through the active backend.                *)
(***************************************************************************)
RunsResult(kind, items) == [kind |-> kind, items |-> items]

\* Runs of the local and object-store backends: not implemented.
UnsupportedRuns == RunsResult("err", <<>>)

\* The pagination loop of BackendRemote.Runs from page n on; failAt is the
\* page whose request fails (0: none).
RECURSIVE RunPages(_, _, _, _, _, _)
RunPages(listing, n, size, limit, failAt, results) ==
    IF n = failAt THEN RunsResult("err", <<>>)
    ELSE LET page == ListPage(listing, n, size)
             all == results \o page.Items
         IN IF Len(all) >= limit THEN RunsResult("ok", SubSeq(all, 1, limit))
            ELSE IF page.NextPage = 0 THEN RunsResult("ok", all)
            ELSE RunPages(listing, n + 1, size, limit, failAt, all)

\* BackendRemote.Runs: the preloaded list, else the client, the
\* organization, the workspace, then the pages.
RemoteRuns(preloaded, stage, listing, limit, failAt) ==
    IF Len(preloaded) > 0 THEN RunsResult("ok", preloaded)
    ELSE IF stage # "none" THEN RunsResult("err", <<>>)
    ELSE LET pageSize == IF limit > 0 /\ limit < PageSizeMax THEN limit ELSE PageSizeMax
         IN RunPages(listing, 1, pageSize, limit, failAt, <<>>)

\* OrgQueryErrorContext(be, org, operation) reads be.Backend.Config.Hostname:
\* a nil backend is a nil-pointer panic.
OrgQueryErrorContext(be) == IF be = "nil" THEN "panic" ELSE "context"

\* The closure RemoteQueryFetcherFactory hands to the paginator: the
\* fetcher's page, or its error wrapped with the context of be.
FetchPage(be, runs) ==
    IF runs.kind = "err"
    THEN IF OrgQueryErrorContext(be) = "panic" THEN RunsResult("panic", <<>>)
         ELSE RunsResult("err", <<>>)
    ELSE runs

\* What PaginateWithOptions returns: the items or the error, and the calls
\* it made.
Paged(kind, items, trace) == [kind |-> kind, items |-> items, trace |-> trace]

AugmentCalled == [ev |-> "augment"]
FetchCalled(n) == [ev |-> "fetch", page |-> n]

\* The calls of one round: the augmenter when there is one, then the fetcher.
RoundCalls(augmenter, page) ==
    IF augmenter.given THEN <<AugmentCalled, FetchCalled(page)>>
    ELSE <<FetchCalled(page)>>

RECURSIVE PaginateRound(_, _, _, _, _, _)
\* The end of a round, r being what the fetcher returned for the page.
PaginateFetched(r, fetcher, augmenter, page, round, results, trace) ==
    IF r.kind # "ok" THEN Paged(r.kind, <<>>, trace)
    ELSE IF r.next = 0 THEN Paged("ok", results \o r.items, trace)
    ELSE PaginateRound(fetcher, augmenter, r.next, round + 1, results \o r.items, trace)

\* One round of the loop of PaginateWithOptions: the augmenter, the fetcher
\* for the page the options hold, then setPageNumber of the next page.
\* fetcher maps a page number to what the fetcher returns for it, augmenter
\* says whether there is one and at which round it fails (0: never).
PaginateRound(fetcher, augmenter, page, round, results, trace) ==
    IF augmenter.given /\ augmenter.failAt = round
    THEN Paged("err", <<>>, Append(trace, AugmentCalled))
    ELSE PaginateFetched(fetcher[page], fetcher, augmenter, page, round, results,
                         trace \o RoundCalls(augmenter, page))

PaginateWithOptions(fetcher, augmenter) ==
    PaginateRound(fetcher, augmenter, 1, 1, <<>>, <<>>)

\* The fetcher of rq: every run at once, NextPage 0.
OnePage(page) == [n \in {1} |-> [kind |-> page.kind, items |-> page.items, next |-> 0]]

\* rq's augmenter returns nil.
NoFilter == [given |-> TRUE, failAt |-> 0]

\* rqCommandAction: the backend, the fetcher factory called with a nil
\* backend, then the runner: the --tldr and --schema shortcuts, the fetch,
\* the output.
rqCommandAction(initOK, tldr, schema, runs) ==
    IF ~initOK THEN [kind |-> "err", inner |-> "none"]
    ELSE IF tldr \/ schema THEN [kind |-> "ok", inner |-> "none"]
    ELSE [kind |-> PaginateWithOptions(OnePage(FetchPage("nil", runs)), NoFilter).kind,
          inner |-> runs.kind]

RunListings == {[i \in 1..n |-> i] : n \in 0..MaxListing}

InitRq == ResolveIdle /\ CacheIdle

RqResult(r) ==
    [kind |-> r.kind, inner |-> r.inner, list |-> <<>>, log |-> <<>>, ret |-> NoBytes]

rqLocal ==
    /\ call.op = "none"
    /\ \E be \in {"local", "s3"}, initOK, tldr, schema \in BOOLEAN :
        /\ call' = [op |-> "rq", be |-> be, initOK |-> initOK, tldr |-> tldr,
                    schema |-> schema]
        /\ out' = RqResult(rqCommandAction(initOK, tldr, schema, UnsupportedRuns))
        /\ UNCHANGED <<versions, existing, cvars>>

rqRemote ==
    /\ call.op = "none"
    /\ \E tldr, schema \in BOOLEAN, preloaded \in {<<>>, <<1>>},
          stage \in {"none", "client", "organization", "workspace"},
          listing \in RunListings, limit \in {1, LimitDefault}, failAt \in 0..2 :
        /\ call' = [op |-> "rq", be |-> "remote", initOK |-> TRUE, tldr |-> tldr,
                    schema |-> schema, preloaded |-> preloaded, stage |-> stage,
                    listing |-> listing, limit |-> limit, failAt |-> failAt]
        /\ out' = RqResult(rqCommandAction(TRUE, tldr, schema,
                              RemoteRuns(preloaded, stage, listing, limit, failAt)))
        /\ UNCHANGED <<versions, existing, cvars>>

NextRq ==
    \/ rqLocal
    \/ rqRemote

SpecRq == InitRq /\ [][NextRq]_vars

\* C18: when the backend's Runs returns an error (always on the local and
\* object-store backends, on a failure of the API on the remote one), rq
\* returns an error to its caller and does not terminate abruptly.
C18_RunErrorsReturned ==
    (call.op = "rq" /\ out.inner = "err") => out.kind = "err"

(***************************************************************************)
(* The cache across invocations that set TFCTL_CACHE differently.          *)
(***************************************************************************)
\* Write, keeping what it returned and the tree it found.
SwitchWrite ==
    \E t \in Targets, key \in ClearKeys, data \in DataSet, io \in IOOutcomes :
        LET w == Write(fs, SubdirsOf(t), key, data, io, ShortLen(data), now)
        IN /\ ops < MaxCacheOps
           /\ fs' = w.fs
           /\ ops' = ops + 1
           /\ cop' = [op |-> "write", by |-> t, key |-> key, data |-> data,
                      err |-> w.err, before |-> fs]
           /\ UNCHANGED <<now, envCache, last, rvars>>

\* The next invocation runs with another value of TFCTL_CACHE.
SetCacheEnv ==
    \E v \in CacheEnvValues :
        /\ v # envCache
        /\ envCache' = v
        /\ cop' = NoCop
        /\ UNCHANGED <<fs, now, ops, last, rvars>>

NextCacheSwitch ==
    \/ SwitchWrite
    \/ CacheRead
    \/ SetCacheEnv

SpecCacheSwitch == InitCache /\ [][NextCacheSwitch]_vars

CopPath == EntryPathOf(SubdirsOf(cop.by), cop.key)

Synthetic(path) == [ID |-> path, Serial |-> 0, CreatedAt |-> 0]

OffsetForm(s) == Len(s) >= 4 /\ ToUpper(SubSeq(s, 1, 4)) = CSVPrefix
IntegerForm(s) == ~OffsetForm(s) /\ Atoi(s).err = "nil"
FileForm(s) == ~OffsetForm(s) /\ ~IntegerForm(s) /\ s \in existing

\* C20: a spec is taken as an offset if it starts with CSV~ (in any case),
\* else as a number if it parses as an integer, else as a file if a file of
\* that name exists, else as an ID prefix. An offset or integer spec yields a
\* record of the list (or fails), never the record of a file, also when a file
\* of that name exists; a spec naming an existing file yields the synthetic
\* record (ID = the path, Serial 0) whatever the list holds; any other spec
\* yields the first record whose ID it is a prefix of, or an error.
C20_ClassificationOrder ==
    call.op = "spec" =>
        LET s == call.specs[1]
        IN /\ (OffsetForm(s) \/ IntegerForm(s)) =>
                /\ out # Found(Synthetic(s))
                /\ out.kind = "ok" => \E j \in 1..Len(versions) : out.sv = versions[j]
           /\ OffsetForm(s) => out = resolveCSVSpec(s, versions)
           /\ (IntegerForm(s) /\ out.kind = "ok") =>
                \/ Atoi(s).val <= 0 /\ out.sv = versions[1 - Atoi(s).val]
                \/ Atoi(s).val > 0 /\ out.sv.Serial = Atoi(s).val
           /\ FileForm(s) => out = Found(Synthetic(s))
           /\ (~OffsetForm(s) /\ ~IntegerForm(s) /\ ~FileForm(s)) =>
                /\ out.kind \in {"ok", "err"}
                /\ out.kind = "ok" =>
                     \E j \in 1..Len(versions) :
                         /\ out.sv = versions[j]
                         /\ IsPrefixOf(s, versions[j].ID)
                         /\ \A m \in 1..(j - 1) : ~IsPrefixOf(s, versions[m].ID)
                /\ out.kind = "err" =>
                     \A j \in 1..Len(versions) : ~IsPrefixOf(s, versions[j].ID)

\* A file named a exists and a is a prefix of the first record's ID: the
\* answer is the file's record.
C20_Witness ==
    /\ call.op = "spec"
    /\ call.specs[1] = <<"a">>
    /\ <<"a">> \in existing
    /\ Len(versions) = 2
    /\ versions[1].ID = <<"a", "b">>
    /\ out = Found(Synthetic(<<"a">>))

(***************************************************************************)
(* One remote backend instance over several calls: be.StateVersionList and *)
(* the list requests sent to the API.                                      *)
(***************************************************************************)
MaxCalls == 2

\* The instance starts without a list; last holds the server's listing, ops
\* counts the StateVersions calls that went to the API, now counts the calls
\* made, cop keeps the list of the first successful StateVersions.
InitMemo ==
    /\ versions = <<>>
    /\ existing = {}
    /\ call = [op |-> "none", specs |-> <<>>, k |-> 0]
    /\ out = [kind |-> "none"]
    /\ fs = EmptyTree
    /\ now = 0
    /\ envCache = ""
    /\ ops = 0
    /\ cop = NoCop
    /\ last \in ServerListings

\* StateVersions goes to the API unless be.StateVersionList is not empty.
ListRequests(preloaded) == IF Len(preloaded) > 0 THEN 0 ELSE 1

\* The first successful listing is remembered with the number of requests
\* made up to it.
FirstListed(listed, reqs) ==
    IF cop.op = "none" /\ listed.kind = "ok"
    THEN [op |-> "listed", list |-> listed.list, reqs |-> reqs]
    ELSE cop

\* A direct call of StateVersions: it returns the list and assigns nothing.
MemoStateVersionsStep(listed) ==
    /\ call' = [op |-> "StateVersions", be |-> "remote", memo |-> TRUE]
    /\ out' = Answer(listed)
    /\ ops' = ops + ListRequests(versions)
    /\ cop' = FirstListed(listed, ops + ListRequests(versions))
    /\ now' = now + 1
    /\ UNCHANGED <<versions, existing, fs, envCache, last>>

MemoStateVersionsCall ==
    /\ now < MaxCalls
    /\ \E listOK \in BOOLEAN :
        MemoStateVersionsStep(
            RemoteStateVersions(versions, last, LimitDefault, FALSE, listOK))

\* State: States of the --sv flag; the list comes from StateVersions.
MemoStateStep(listed, sv, states) ==
    /\ call' = [op |-> "State", be |-> "remote", memo |-> TRUE, sv |-> sv]
    /\ out' = [kind |-> states.kind, list |-> listed.list, log |-> <<>>,
               ret |-> IF states.kind = "ok" THEN states.bodies[1] ELSE NoBytes]
    /\ fs' = states.fs
    /\ ops' = ops + ListRequests(versions)
    /\ cop' = FirstListed(listed, ops + ListRequests(versions))
    /\ now' = now + 1
    /\ UNCHANGED <<versions, existing, envCache, last>>

MemoStateList(sv, listOK) ==
    RemoteStateVersions(versions, last, LimitDefault, sv = SvDefault, listOK)

MemoStateCall ==
    /\ now < MaxCalls
    /\ \E sv \in {SvDefault, <<"1">>}, listOK \in BOOLEAN :
        MemoStateStep(MemoStateList(sv, listOK), sv,
                      RemoteStates(MemoStateList(sv, listOK), fs, <<sv>>, 0, now,
                                   [fail |-> FALSE, body |-> Doc(1)], "ok"))

\* DiffStates: with "+" the list is assigned to be.StateVersionList before
\* States asks for it again.
MemoDiffStatesStep(listed, diffArgs, selected, r) ==
    /\ call' = [op |-> "DiffStates", be |-> "remote", memo |-> TRUE,
                diffArgs |-> diffArgs, selected |-> selected]
    /\ out' = [r.res EXCEPT !.list = listed.list]
    /\ fs' = r.fs
    /\ versions' = IF Len(diffArgs) = 1 /\ HasPrefix(diffArgs[1], <<"+">>)
                      /\ listed.kind = "ok"
                   THEN listed.list ELSE versions
    /\ ops' = ops + ListRequests(versions)
    /\ cop' = FirstListed(listed, ops + ListRequests(versions))
    /\ now' = now + 1
    /\ UNCHANGED <<existing, envCache, last>>

MemoDiffList(listOK) ==
    RemoteStateVersions(versions, last, LimitDefault, FALSE, listOK)

MemoDiffStatesCall ==
    /\ now < MaxCalls
    /\ \E diffArgs \in DiffArgLists(ObjectDiffSpecs), listOK \in BOOLEAN :
        \E selected \in Picked(diffArgs, MemoDiffList(listOK).list) :
            MemoDiffStatesStep(MemoDiffList(listOK), diffArgs, selected,
                RemoteDiffStates(MemoDiffList(listOK), fs, diffArgs, selected, 0, now,
                                 [fail |-> FALSE, body |-> Doc(1)], "ok"))

NextMemo ==
    \/ MemoStateVersionsCall
    \/ MemoStateCall
    \/ MemoDiffStatesCall

SpecMemo == InitMemo /\ [][NextMemo]_vars

\* C21: once StateVersions has succeeded on an instance, no later call on it
\* (StateVersions, State, DiffStates) sends another list request, and each
\* gets the list the first one returned.
C21_ListedOnce ==
    cop.op = "listed" =>
        /\ ops = cop.reqs
        /\ (call.op \in {"StateVersions", "State", "DiffStates"} /\ out.kind = "ok"
              /\ (call.op = "DiffStates" => out.inner = "ok")) =>
                out.list = cop.list

(***************************************************************************)
(* Paged listing: what is sent to the API and in which order.              *)
(***************************************************************************)
Augmented == [ev |-> "augment"]
Listed(n) == [ev |-> "list", page |-> n]

\* The requests of the pagination loop of BackendRemote.StateVersions from
\* page n on: one List per round, until the limit is reached or the server
\* reports no next page.
RECURSIVE ListRounds(_, _, _, _, _)
ListRounds(listing, n, size, limit, count) ==
    IF count + Len(ListPage(listing, n, size).Items) >= limit
          \/ ListPage(listing, n, size).NextPage = 0
    THEN <<Listed(n)>>
    ELSE <<Listed(n)>> \o
         ListRounds(listing, n + 1, size, limit,
                    count + Len(ListPage(listing, n, size).Items))

\* What BackendRemote.StateVersions does with the augmenter and the API when
\* the list is not preloaded and the client is there: the augmenter (none,
\* one that succeeds, one that fails) once, then the rounds.
RemoteListEvents(listing, flagLimit, shortcut, augmenter) ==
    IF augmenter = "err" THEN <<Augmented>>
    ELSE (IF augmenter = "ok" THEN <<Augmented>> ELSE <<>>) \o
         ListRounds(listing, 1,
                    IF (IF shortcut THEN 1 ELSE flagLimit) > 0
                          /\ (IF shortcut THEN 1 ELSE flagLimit) < PageSizeMax
                    THEN (IF shortcut THEN 1 ELSE flagLimit) ELSE PageSizeMax,
                    IF shortcut THEN 1 ELSE flagLimit, 0)

\* StateVersions with an augmenter: the result and the events.
RemoteAugmentedCall ==
    /\ call.op = "none"
    /\ \E listing \in ServerListings, limit \in Limits, shortcut \in BOOLEAN,
          augmenter \in {"none", "ok", "err"} :
        /\ call' = [op |-> "StateVersions", be |-> "remote", listing |-> listing,
                    limit |-> limit, shortcut |-> shortcut, augmenter |-> augmenter]
        /\ out' = [Answer(IF augmenter = "err" THEN [kind |-> "err", list |-> <<>>]
                          ELSE RemoteStateVersions(<<>>, listing, limit, shortcut, TRUE))
                      EXCEPT !.log = RemoteListEvents(listing, limit, shortcut, augmenter)]
        /\ UNCHANGED <<versions, existing, cvars>>

\* Longest chain of pages a paged fetcher serves.
MaxPages == 3

\* The --limit of a command that is served by the generic driver.
PageLimits == {1, 2, LimitDefault}

\* Fetchers of np pages: page p holds sz[p] items and reports page p + 1 as
\* the next one, the last page reports 0; the request of page failAt fails
\* (0: none does).
PageFetchers ==
    UNION {{[p \in 1..np |->
                IF p = failAt THEN [kind |-> "err", items |-> <<>>, next |-> 0]
                ELSE [kind |-> "ok", items |-> [i \in 1..sz[p] |-> p],
                      next |-> IF p = np THEN 0 ELSE p + 1]] :
             sz \in [1..np -> 0..2], failAt \in 0..np} : np \in 1..MaxPages}

Augmenters ==
    {[given |-> FALSE, failAt |-> 0]} \cup
    {[given |-> TRUE, failAt |-> r] : r \in 0..MaxPages}

\* A command with a --limit flag (wq) lists through PaginateWithOptions: the
\* driver is handed the command, the options, the fetcher and the augmenter.
PaginateCall ==
    /\ call.op = "none"
    /\ \E fetcher \in PageFetchers, augmenter \in Augmenters, limit \in PageLimits :
        /\ call' = [op |-> "Paginate", fetcher |-> fetcher, augmenter |-> augmenter,
                    limit |-> limit]
        /\ out' = [kind |-> PaginateWithOptions(fetcher, augmenter).kind,
                   list |-> PaginateWithOptions(fetcher, augmenter).items,
                   log |-> PaginateWithOptions(fetcher, augmenter).trace,
                   ret |-> NoBytes]
        /\ UNCHANGED <<versions, existing, cvars>>

InitPages == ResolveIdle /\ CacheIdle

NextPages == RemoteAugmentedCall \/ PaginateCall

SpecPages == InitPages /\ [][NextPages]_vars

\* C22: when a filter-injection callback is supplied, the hosted-API
\* StateVersions calls it before every page request: each list request is
\* immediately preceded by a call of the callback.
C22_AugmentBeforeEveryPage ==
    (call.op = "StateVersions" /\ call.augmenter = "ok") =>
        \A i \in 1..Len(out.log) :
            out.log[i].ev = "list" => (i > 1 /\ out.log[i - 1].ev = "augment")

\* The fetches among the calls of the driver.
Fetches(log) == SelectSeq(log, LAMBDA e : e.ev = "fetch")

\* The items of the first i fetched pages, in the order fetched.
RECURSIVE ItemsUpTo(_, _, _)
ItemsUpTo(fetcher, fetched, i) ==
    IF i = 0 THEN <<>>
    ELSE ItemsUpTo(fetcher, fetched, i - 1) \o fetcher[fetched[i].page].items

\* C23: every round of PaginateWithOptions calls the augmenter (if any) and
\* then the fetcher; the result is the items of the fetched pages in order;
\* a further page is fetched only while the item-count limit is not reached,
\* and it is the page reported as next; the loop ends at a page without a
\* next page or at the limit; an error of the augmenter or the fetcher is
\* returned with no results.
C23_PaginateContract ==
    call.op = "Paginate" =>
        /\ out.kind # "ok" => out.list = <<>>
        /\ out.kind = "ok" =>
            /\ out.list = ItemsUpTo(call.fetcher, Fetches(out.log), Len(Fetches(out.log)))
            /\ \/ call.fetcher[Fetches(out.log)[Len(Fetches(out.log))].page].next = 0
               \/ Len(out.list) >= call.limit
        /\ \A i \in 1..Len(out.log) :
            (out.log[i].ev = "fetch" /\ call.augmenter.given) =>
                (i > 1 /\ out.log[i - 1].ev = "augment")
        /\ \A i \in 1..(Len(Fetches(out.log)) - 1) :
            /\ Fetches(out.log)[i + 1].page = call.fetcher[Fetches(out.log)[i].page].next
            /\ Len(ItemsUpTo(call.fetcher, Fetches(out.log), i)) < call.limit

(***************************************************************************)
(* The object store's StateVersions: the usable history.                   *)
(***************************************************************************)
\* The records the loop built whose body gave no serial.
ZeroSerial == {r \in Range(call.collected) : r.Serial = 0}

C25_UndecodableIsMiss ==
    call.op \in {"StateVersion", "Hitter", "StateBody", "StateVersions"} =>
        \A i \in 1..Len(out.log) :
            out.log[i].hit => ParseDoc(out.log[i].ret).ok

(***************************************************************************)
(* BackendCloud.Transform2Remote: the host and the organization of the     *)
(* remote backend built from a cloud block.                                *)
(***************************************************************************)
\* The configured default organization: the entry of the command's namespace,
\* else the global one.
ConfiguredOrg(nsCfg, globalCfg) ==
    IF nsCfg.err = "nil" /\ nsCfg.val # <<>> THEN nsCfg.val
    ELSE IF globalCfg.err = "nil" THEN globalCfg.val
    ELSE <<>>

\* The --org flag whenever it is not empty.
TransformOrg_FlagFirst(flagOrg, cfgOrg, backendOrg) ==
    IF flagOrg # <<>> THEN flagOrg ELSE backendOrg

\* The organization Transform2Remote settles on.
TransformOrg(flagOrg, cfgOrg, backendOrg) ==
    IF flagOrg # <<>> /\ flagOrg # cfgOrg THEN flagOrg
    ELSE IF backendOrg = <<>> THEN flagOrg
    ELSE backendOrg

Transform2Remote(be, flagHost, flagOrg, nsCfg, globalCfg) ==
    [kind |-> "ok",
     host |-> IF be.Hostname = <<>> THEN flagHost ELSE be.Hostname,
     org |-> TransformOrg(flagOrg, ConfiguredOrg(nsCfg, globalCfg), be.Organization)]

\* The cloud block's hostname and organization.
CloudBlocks == [Hostname : {<<>>, <<"h">>}, Organization : {<<>>, <<"b">>}]

\* The <command>.org and org entries of the user configuration.
NamespacedOrgConfigs == OrgConfigs
GlobalOrgConfigs == [val : {<<>>, <<"c">>, <<"g">>}, err : {"nil", "missing"}]

Transform2RemoteCall ==
    /\ call.op = "none"
    /\ \E be \in CloudBlocks, flagHost \in {<<>>, <<"f">>},
          flagOrg \in {<<>>, <<"c">>, <<"g">>, <<"a">>},
          nsCfg \in NamespacedOrgConfigs, globalCfg \in GlobalOrgConfigs :
        /\ call' = [op |-> "Transform2Remote", be |-> be, flagHost |-> flagHost,
                    flagOrg |-> flagOrg, nsCfg |-> nsCfg, globalCfg |-> globalCfg]
        /\ out' = Transform2Remote(be, flagHost, flagOrg, nsCfg, globalCfg)
        /\ UNCHANGED <<versions, existing, cvars>>

InitTransform == ResolveIdle /\ CacheIdle

NextTransform == Transform2RemoteCall

SpecTransform == InitTransform /\ [][NextTransform]_vars

\* The default the configuration gives the call's --org flag.
CallDefaultOrg ==
    IF call.nsCfg.err = "nil" /\ call.nsCfg.val # <<>> THEN call.nsCfg.val
    ELSE IF call.globalCfg.err = "nil" THEN call.globalCfg.val
    ELSE <<>>

\* C26: the organization of the remote backend Transform2Remote builds is the
\* flag value when that is set and differs from the configured default;
\* otherwise the cloud block's organization when it is not empty; otherwise
\* the flag value.
C26_TransformOrganization ==
    call.op = "Transform2Remote" =>
        out.org = IF call.flagOrg # <<>> /\ call.flagOrg # CallDefaultOrg
                  THEN call.flagOrg
                  ELSE IF call.be.Organization # <<>> THEN call.be.Organization
                  ELSE call.flagOrg

\* The flag carries the configured default and the cloud block names an
\* organization: the block's organization is taken.
C26_Witness ==
    /\ call.op = "Transform2Remote"
    /\ call.flagOrg = <<"c">>
    /\ CallDefaultOrg = <<"c">>
    /\ call.be.Organization = <<"b">>
    /\ out.org = <<"b">>

(***************************************************************************)
(* Hitter and the status of the origin's response.                         *)
(***************************************************************************)
\* C27: Hitter writes to the cache under the URL, and returns as the
\* document, only the body of a successful response: after a response with
\* a failure status nothing was written, the fetch did not succeed with that
\* body, and the cache does not hold it under the URL.
C27_OnlySuccessfulBodies ==
    (call.op = "Hitter" /\ ~call.origin.fail /\ call.origin.status # "200") =>
        \A i \in 1..Len(out.log) :
            out.log[i].contacted =>
                /\ ~out.log[i].wrote
                /\ out.kind # "ok"
                /\ ~(/\ Read(fs, call.subdirs, out.log[i].key).found
                     /\ Read(fs, call.subdirs, out.log[i].key).data = Denied)

(***************************************************************************)
(* A Read while other processes are in Write.                              *)
(***************************************************************************)
\* C28: a Read of an entry that other processes are writing returns not
\* found, or the whole bytes of one Write to the entry (an earlier one or one
\* under way), never nothing or a part of them.
C28_ReadSeesWholeWrite ==
    (cop.op = "writers" /\ out.kind = "read" /\ out.found) =>
        \/ out.data = TrimSpace(<<"o", "o", "o">>)
        \/ \E p \in Writers : out.data = TrimSpace(cop.w[p].data)

(***************************************************************************)
(* State() under the commands: the limit a command without a --limit flag  *)
(* reads.                                                                  *)
(***************************************************************************)
\* be.Cmd.Int("limit"): sq declares the flag with its default, si declares no
\* such flag and the lookup gives the zero value.
CmdLimit(cmd) == IF cmd = "sq" THEN LimitDefault ELSE 0

\* states[0] of State(): the error of States, else the first document; an
\* empty result without an error is an index out of range.
FirstState(states) ==
    IF states.kind # "ok" THEN [kind |-> states.kind, ret |-> NoBytes]
    ELSE IF states.bodies = <<>> THEN [kind |-> "panic", ret |-> NoBytes]
    ELSE [kind |-> "ok", ret |-> states.bodies[1]]

\* LoadStateData: be.State() of the backend, listed being what its
\* StateVersions returns and states what States(sv) returns.
StateStep(be, cmd, sv, usable, listed, states) ==
    /\ call' = [op |-> "State", be |-> be, cmd |-> cmd, sv |-> sv, usable |-> usable]
    /\ out' = [kind |-> FirstState(states).kind, list |-> Answer(listed).list,
               log |-> <<>>, ret |-> FirstState(states).ret]
    /\ fs' = states.fs
    /\ UNCHANGED <<versions, existing, now, envCache, ops, cop, last>>

\* The list StateVersions gives BackendRemote.State under cmd and sv.
CmdRemoteList(cmd, sv, listing) ==
    RemoteStateVersions(<<>>, listing, CmdLimit(cmd), sv = SvDefault, TRUE)

RemoteCmdStateCall ==
    /\ call.op = "none"
    /\ \E cmd \in {"si", "sq"}, sv \in {SvDefault, <<"1">>}, listing \in ServerListings :
        StateStep("remote", cmd, sv, Len(listing), CmdRemoteList(cmd, sv, listing),
                  RemoteStates(CmdRemoteList(cmd, sv, listing), fs, <<sv>>, 0, now,
                               [fail |-> FALSE, body |-> Doc(1), status |-> "200"], "ok"))

S3CmdStateCall ==
    /\ call.op = "none"
    /\ \E cmd \in {"si", "sq"}, sv \in {SvDefault, <<"1">>}, listing \in OwnListings :
        \E sorted \in SortByCreatedAt(DiffCollect(listing).list) :
            StateStep("s3", cmd, sv, Len(CurrentVersions(sorted)),
                      S3StateVersions(sorted, CmdLimit(cmd)),
                      S3States(S3StateVersions(sorted, CmdLimit(cmd)).list,
                               DiffCollect(listing).fs, <<sv>>, 0, now,
                               [fail |-> FALSE, body |-> Doc(1), status |-> "200"]))

InitCmdState == InitDiff

NextCmdState == RemoteCmdStateCall \/ S3CmdStateCall

SpecCmdState == InitCmdState /\ [][NextCmdState]_vars

\* C29: under si, which has no --limit flag, the hosted-API and object-store
\* backends that hold at least one usable revision list a non-empty history
\* and State() returns a document.
C29_ZeroLimitKeepsList ==
    (call.op = "State" /\ call.cmd = "si" /\ call.usable > 0) =>
        /\ out.list # <<>>
        /\ out.kind = "ok"
        /\ out.ret # NoBytes

(***************************************************************************)
(* sq --diff: what reaches differ.Diff.                                    *)
(***************************************************************************)
\* C30: when sq --diff hands the documents of DiffStates to Diff there are
\* exactly two of them; when DiffStates returns no documents and no error
\* (the selection was abandoned) the command ends without a comparison and
\* without reading an element of the empty list.
C30_DiffGetsTwoDocuments ==
    (call.op = "DiffStates" /\ out.kind = "ok") =>
        /\ out.sq # "panic"
        /\ out.docs # <<>> => Len(out.docs) = 2
        /\ out.docs = <<>> => out.sq = "nil"

=============================================================================
